---- MODULE Spec2Model ----
(***************************************************************************)
(* Model of llmpt's P2P batch coordination layer (src/llmpt/p2p_batch.py): *)
(* the process-wide P2PBatchManager, its per-(repo_id, revision)           *)
(* SessionContext objects, the threads calling register_request and        *)
(* register_seeding_task, the per-session monitor threads, and the         *)
(* libtorrent session as the environment they drive.                       *)
(*                                                                         *)
(* Python statements are interleaved at statement granularity wherever a   *)
(* thread that does not hold a lock can observe the difference.  A file    *)
(* index i of the code is index i+1 here (TLA+ sequences start at 1) and   *)
(* None is 0.                                                              *)
(***************************************************************************)
EXTENDS Naturals, Sequences, FiniteSets

\* ------------------------------------------------------------------ bounds

\* Size in bytes of the one non-empty file of the torrent.
SizeA == 1

\* Number of registrations (register_request, register_seeding_task) a run
\* starts.
MaxCalls == 2

\* Entries in a tracker's answer.
MaxEntries == 2

\* Size of a padding file.
PadSize == 2

\* Longest path, in characters, and most files of a torrent whose files are
\* looked up by name.
MaxPathLen == 3
MaxFiles == 2

\* ------------------------------------------------------- the modelled world

NoThread == "none"

\* Threads calling P2PBatchManager.register_request.
DlThreads == {"t1", "t2"}

\* Threads calling P2PBatchManager.register_seeding_task.
SeedThreads == {"s1"}

Callers == DlThreads \cup SeedThreads

\* repo_key = (repo_id, revision)
Keys == {"k1"}

\* The key each thread registers for.
ThreadKey(t) == "k1"

\* len(self.revision) of a key: "main" for k1.
RevisionLen(k) == 4

\* Handles the libtorrent session can hand out: one per add_torrent call, and
\* a caller adds at most once.
Handles == 1 .. Cardinality(Callers)

\* The files of the torrent, as libtorrent lists them: path (a string, one
\* character per element) and size.
TorrentFiles ==
    << [path |-> <<"r", "/", "a">>, size |-> SizeA],
       [path |-> <<"r", "/", "z">>, size |-> 0] >>

FileIdx == 1 .. Len(TorrentFiles)

\* Filenames a caller may ask for: two files of the torrent, one absent.
FileNames == { <<"a">>, <<"z">>, <<"x">> }

\* temp_file_path values a caller may pass.
Dests == {"d1", "d2"}

\* The timeout a download registration passes: a caller's arguments come in
\* pairs (temp_file_path, timeout), d1 with the default of 300 seconds and
\* d2 with 60.
TimeoutArg(d) == IF d = "d1" THEN 300 ELSE 60

\* The timeout register_seeding_task builds a SessionContext with.
SeedingTimeout == 30

\* libtorrent's default file priority of a freshly added torrent.
DefaultPriority == 4

\* Answers of tracker_client.get_torrent_info: None, a dict without
\* 'magnet_link', a dict with one.
TrackerAnswers == {"none", "nomagnet", "magnet"}

VARIABLES
    \* P2PBatchManager
    mgrLock,            \* holder of P2PBatchManager._lock
    sessions,           \* repo_key -> id of its SessionContext, 0 if absent
    nCtx,               \* repo_key -> number of SessionContext objects built
    \* SessionContext (of the instance in sessions[k])
    handle,             \* self.handle: a handle, 0 for None
    is_valid,           \* self.is_valid
    torrent_info_obj,   \* self.torrent_info_obj is set
    torrent_data,       \* self.torrent_data is given
    timeout,            \* self.timeout
    lock,               \* holder of self.lock
    file_events,        \* filename -> "none" | "unset" | "set"
    file_destinations,  \* filename -> destination, "none" if absent
    nEvents,            \* filename -> number of threading.Event objects built
    \* the libtorrent session and its torrents
    nAdded,             \* number of add_torrent calls so far
    hKey,               \* handle -> the key it was added for
    hState,             \* handle -> "absent" | "added" | "removed"
    hMeta,              \* handle -> has_metadata()
    hPaused,            \* handle -> paused flag
    hPrio,              \* handle -> file index -> priority
    hTarget,            \* handle -> file index -> storage target: "orig",
                        \* a destination, "cache" or "pad"
    hProg,              \* handle -> file index -> file_progress()
    hErr,               \* handle -> status().errc is an error
    hZeroed,            \* handle -> prioritize_files([0]*n) was called
    hSaveReq,           \* handle -> save_resume_data was requested
    \* monitor threads, named by the handle whose add started them
    monPc,
    \* caller threads
    pc, ctx, fname, dest, initRet, ret, timedOut,
    startedInvalid, queried, missed, added, retTarget,
    metaTimedOut,       \* the thread's metadata wait ran out
    calls,              \* registrations started so far
    \* the module
    lt_available,       \* LIBTORRENT_AVAILABLE
    \* the package (llmpt/__init__.py)
    patched,            \* _patched
    config,             \* _config
    lastApi,            \* the last of enable_p2p / disable_p2p to return
    enableArgs,         \* the arguments of the last enable_p2p call
    \* the monkey patch (llmpt/patch.py) and huggingface_hub
    hf_installed,       \* huggingface_hub can be imported
    original_hf,        \* _original_hf_hub_download: << >> for None
    original_http,      \* _original_http_get: << >> for None
    hub_hf,             \* huggingface_hub.hf_hub_download
    fd_hf,              \* file_download.hf_hub_download
    snap_hf,            \* _snapshot_download.hf_hub_download
    fd_http,            \* file_download.http_get
    patchLog,           \* the last two of apply_patch / remove_patch called
    tctx,               \* the thread-local _context of the downloading thread
    apiPc,              \* "idle", or "in_hf" inside hf_hub_download
    lastGet,            \* what the last http_get of the thread did
    \* the seeder (llmpt/seeder.py)
    seeding_sessions,   \* the info hashes in _seeding_sessions
    wPc,                \* worker thread -> "none" | "starting" | "seeding"
                        \* | "exited"
    wHash,              \* worker thread -> the info hash it seeds
    wOwner,             \* info hash -> the worker whose session and handle
                        \* _seeding_sessions holds under it, "none" if none
    wTorrent,           \* worker -> its torrent: "none", "added" to its
                        \* lt.session, "removed" by remove_torrent, or
                        \* "released" with the session when the worker
                        \* returned without
    wStopAfter,         \* worker -> stop_seeding of its hash or
                        \* stop_all_seeding was called since start_seeding
                        \* started it
    stopLog,            \* what the stop_all_seeding calls returned that
                        \* were made since _seeding_sessions last changed
                        \* otherwise (the last two of them)
    \* a tracker query (llmpt/tracker_client.py)
    tResp,              \* what the tracker answers
    tRev,               \* the revision asked for, "None" for none
    tDone,              \* get_torrent_info returned
    tResult,            \* the entry it returned, by position; 0 for None
    \* a seeding session whose files are mapped (map_all_files_for_seeding)
    mFiles,             \* the files of the torrent
    mHandle,            \* self.handle is set
    mInfo,              \* self.torrent_info_obj is set
    mCache,             \* file index -> what try_to_load_from_cache does
    mPadFiles,          \* file index -> size of its file in pad_dir, in
                        \* << >>; << >> if there is none
    mTarget,            \* file index -> storage target of the file
    mResumed,           \* resume() was called
    mRet,               \* "None" | "True" | "False"
    \* a session whose torrent is being added (_init_torrent, step 2)
    rIn,                \* what the run meets: locator, resume file, engine
    rPc,                \* "build" | "resume" | "add" | "added" | "failed"
    rParams,            \* params, in << >>; << >> before it is built
    rValid,             \* self.is_valid
    rHandle,            \* self.handle is set
    \* a file looked up by name (_find_file_index)
    fPaths,             \* the paths of the torrent's files
    fInfo,              \* self.torrent_info_obj is set
    fTarget,            \* target_filename
    fResult,            \* what the call returned, in << >>; << >> before
    \* the threads that download through the patched huggingface_hub
    cLocal,             \* storage slot -> the attributes of _context there
    cFrames,            \* thread -> its active patched_hf_hub_download
                        \* calls, the innermost last: the call's own
                        \* context and its prev_* locals
    cSeen,              \* thread -> the context its last http_get read, in
                        \* << >>; << >> before
    \* two sessions on the one lt_session, and its alert queue
    aAsked,             \* session -> save_resume_data calls not answered yet
    aPosted,            \* session -> save_resume_data_alerts the engine
                        \* posted for its handle
    aQueue,             \* the alerts lt_session holds, oldest first, each
                        \* the session whose handle it names
    aWritten            \* session -> alerts written to its fastresume_path

vars == << mgrLock, sessions, nCtx, handle, is_valid, torrent_info_obj,
           torrent_data, timeout, lock, file_events, file_destinations, nEvents,
           nAdded, hKey, hState, hMeta, hPaused, hPrio, hTarget, hProg, hErr,
           hZeroed, hSaveReq, monPc, pc, ctx, fname, dest, initRet, ret,
           timedOut, startedInvalid, queried, missed, added, retTarget,
           metaTimedOut, calls, lt_available, patched, config, lastApi,
           enableArgs, hf_installed, original_hf, original_http, hub_hf, fd_hf,
           snap_hf, fd_http, patchLog, tctx, apiPc, lastGet,
           seeding_sessions, wPc, wHash, stopLog, wOwner, wTorrent,
           wStopAfter, tResp, tRev, tDone,
           tResult, mFiles, mHandle, mInfo, mCache, mPadFiles, mTarget,
           mResumed, mRet, rIn, rPc, rParams, rValid, rHandle, fPaths, fInfo,
           fTarget, fResult, cLocal, cFrames, cSeen, aAsked, aPosted,
           aQueue, aWritten >>

mgrVars == << mgrLock, sessions, nCtx >>
sessVars == << handle, is_valid, torrent_info_obj, torrent_data, timeout, lock,
               file_events, file_destinations, nEvents >>
engVars == << nAdded, hKey, hState, hMeta, hPaused, hPrio, hTarget, hProg,
              hErr, hZeroed, hSaveReq >>
callVars == << ctx, fname, dest, initRet, ret, timedOut, startedInvalid,
               queried, missed, added, retTarget, metaTimedOut, calls >>

\* The coordination layer: manager, sessions, engine, monitors, callers.
coreVars == << mgrVars, sessVars, engVars, callVars, monPc, pc >>

pkgVars == << patched, config, lastApi, enableArgs >>
slotVars == << hf_installed, original_hf, original_http, hub_hf, fd_hf,
               snap_hf, fd_http >>
patchVars == << slotVars, patchLog >>
getVars == << tctx, apiPc, lastGet >>

apiVars == << pkgVars, patchVars, getVars >>
seederVars == << seeding_sessions, wPc, wHash, stopLog, wOwner, wTorrent,
                wStopAfter >>

trackerVars == << tResp, tRev, tDone, tResult >>
mapVars == << mFiles, mHandle, mInfo, mCache, mPadFiles, mTarget, mResumed,
              mRet >>
resumeVars == << rIn, rPc, rParams, rValid, rHandle >>
findVars == << fPaths, fInfo, fTarget, fResult >>
ctxVars == << cLocal, cFrames, cSeen >>
alertVars == << aAsked, aPosted, aQueue, aWritten >>

\* What no step of the package and its patch changes, beside coreVars.
besideApi == << seederVars, trackerVars, mapVars, resumeVars,
                   findVars,
                   ctxVars, alertVars >>
\* What no step of the seeder changes, beside coreVars.
besideSeeder == << apiVars, trackerVars, mapVars, resumeVars,
                   findVars,
                   ctxVars, alertVars >>
\* What a tracker query leaves alone, beside coreVars.
besideTracker == << apiVars, seederVars, mapVars, resumeVars,
                   findVars,
                   ctxVars, alertVars >>
\* What the mapping of a seeding session's files leaves alone.
besideMap == << apiVars, seederVars, trackerVars, resumeVars, findVars,
                   ctxVars, alertVars >>
\* What the adding of a session's torrent leaves alone.
besideResume == << apiVars, seederVars, trackerVars, mapVars, findVars,
                   ctxVars, alertVars >>

\* What no step of a registration, of a monitor or of the engine changes.
otherVars == << lt_available, apiVars, seederVars, trackerVars, mapVars,
               resumeVars, findVars,
                   ctxVars, alertVars >>

\* ------------------------------------------------------ _find_file_index

\* str.replace('\\', '/')
Normalize(p) == [i \in DOMAIN p |-> IF p[i] = "\\" THEN "/" ELSE p[i]]

\* Position of the first '/' of p, 0 if none.
FirstSlash(p) ==
    IF \E i \in DOMAIN p : p[i] = "/"
    THEN CHOOSE i \in DOMAIN p :
             p[i] = "/" /\ \A j \in DOMAIN p : p[j] = "/" => i <= j
    ELSE 0

\* lt_path.split('/', 1)
SplitOnce(p) ==
    IF FirstSlash(p) = 0
    THEN << p >>
    ELSE << SubSeq(p, 1, FirstSlash(p) - 1),
            SubSeq(p, FirstSlash(p) + 1, Len(p)) >>

\* A match that drops any number of leading directories.
PathMatches_AnyDepth(lt_path, target_norm) ==
    \/ lt_path = target_norm
    \/ \E j \in DOMAIN lt_path :
           lt_path[j] = "/" /\ SubSeq(lt_path, j + 1, Len(lt_path)) = target_norm

\* Whether a file's path, backslashes replaced, matches the requested name:
\* Case 1 and Case 2 of the loop body.
PathMatches(lt_path, target_norm) ==
    LET parts == SplitOnce(lt_path)
    IN  \/ lt_path = target_norm
        \/ Len(parts) = 2 /\ parts[2] = target_norm

\* The loop of _find_file_index from file i on, over the paths of the
\* torrent's files; info is whether self.torrent_info_obj is set. 0 for None.
RECURSIVE FindIndexFrom(_, _, _, _)
FindIndexFrom(paths, info, i, target_filename) ==
    IF ~info \/ i > Len(paths)
    THEN 0
    ELSE IF PathMatches(Normalize(paths[i]), Normalize(target_filename))
    THEN i
    ELSE FindIndexFrom(paths, info, i + 1, target_filename)

\* SessionContext._find_file_index: 0 for None.
FindFileIndex(info, target_filename) ==
    FindIndexFrom([i \in FileIdx |-> TorrentFiles[i].path], info, 1,
                  target_filename)

\* ------------------------------------------------------------------- Init

CoreInit ==
    /\ mgrLock = NoThread
    /\ sessions = [k \in Keys |-> 0]
    /\ nCtx = [k \in Keys |-> 0]
    /\ handle = [k \in Keys |-> 0]
    /\ is_valid = [k \in Keys |-> TRUE]
    /\ torrent_info_obj = [k \in Keys |-> FALSE]
    /\ torrent_data = [k \in Keys |-> FALSE]
    /\ lock = [k \in Keys |-> NoThread]
    /\ file_events = [k \in Keys |-> [f \in FileNames |-> "none"]]
    /\ file_destinations = [k \in Keys |-> [f \in FileNames |-> "none"]]
    /\ nEvents = [k \in Keys |-> [f \in FileNames |-> 0]]
    /\ nAdded = 0
    /\ hKey = [h \in Handles |-> "k1"]
    /\ hState = [h \in Handles |-> "absent"]
    /\ hMeta = [h \in Handles |-> FALSE]
    /\ hPaused = [h \in Handles |-> FALSE]
    /\ hPrio = [h \in Handles |-> [i \in FileIdx |-> DefaultPriority]]
    /\ hTarget = [h \in Handles |-> [i \in FileIdx |-> "orig"]]
    /\ hProg = [h \in Handles |-> [i \in FileIdx |-> 0]]
    /\ hErr = [h \in Handles |-> FALSE]
    /\ hZeroed = [h \in Handles |-> FALSE]
    /\ hSaveReq = [h \in Handles |-> FALSE]
    /\ monPc = [h \in Handles |-> "none"]
    /\ pc = [t \in Callers |-> "idle"]
    /\ ctx = [t \in Callers |-> 0]
    /\ fname = [t \in Callers |-> <<"a">>]
    /\ dest = [t \in Callers |-> "d1"]
    /\ initRet = [t \in Callers |-> FALSE]
    /\ ret = [t \in Callers |-> "None"]
    /\ timedOut = [t \in Callers |-> FALSE]
    /\ startedInvalid = [t \in Callers |-> FALSE]
    /\ queried = [t \in Callers |-> FALSE]
    /\ missed = [t \in Callers |-> FALSE]
    /\ added = [t \in Callers |-> FALSE]
    /\ retTarget = [t \in Callers |-> "none"]
    /\ metaTimedOut = [t \in Callers |-> FALSE]
    /\ calls = 0
    /\ timeout = [k \in Keys |-> 0]

\* _config as the package is imported (HF_USE_P2P unset).
DefaultConfig ==
    [tracker_url |-> "None", auto_seed |-> TRUE, seed_duration |-> 3600,
     timeout |-> 300]

\* A thread's _context before any hf_hub_download: every getattr gives None
\* (<< >> stands for a filename of None).
NoContext ==
    [repo_id |-> "None", filename |-> << >>, revision |-> "None",
     tracker |-> "None"]

\* No http_get was made yet.
NoGet ==
    [done |-> FALSE, intercepted |-> FALSE, ctx |-> NoContext, reg |-> "none",
     orig |-> 0]

\* The package and the patch after import: nothing enabled, nothing saved,
\* huggingface_hub's own functions (0) in place.
PackageInit ==
    /\ patched = FALSE
    /\ config = DefaultConfig
    /\ lastApi = "none"
    /\ enableArgs = DefaultConfig
    /\ original_hf = << >>
    /\ original_http = << >>
    /\ hub_hf = 0
    /\ fd_hf = 0
    /\ snap_hf = 0
    /\ fd_http = 0
    /\ patchLog = << >>
    /\ tctx = NoContext
    /\ apiPc = "idle"
    /\ lastGet = NoGet

\* Worker threads start_seeding can start, and the info hashes it is
\* called with.
Workers == {"w1", "w2", "w3"}
Hashes == {"h1", "h2"}

\* The seeder after import: nothing is seeded, no worker runs.
SeederInit ==
    /\ seeding_sessions = {}
    /\ wPc = [w \in Workers |-> "none"]
    /\ wHash = [w \in Workers |-> "h1"]
    /\ stopLog = << >>
    /\ wOwner = [h \in Hashes |-> "none"]
    /\ wTorrent = [w \in Workers |-> "none"]
    /\ wStopAfter = [w \in Workers |-> FALSE]

\* No tracker query is under way.
TrackerIdle ==
    /\ tResp = [kind |-> "timeout", key |-> "data", list |-> << >>]
    /\ tRev = "None"
    /\ tDone = FALSE
    /\ tResult = 0

\* No seeding session is being mapped.
MapIdle ==
    /\ mFiles = << >>
    /\ mHandle = FALSE
    /\ mInfo = FALSE
    /\ mCache = << >>
    /\ mPadFiles = << >>
    /\ mTarget = << >>
    /\ mResumed = FALSE
    /\ mRet = "None"

\* No torrent is being added outside the registrations.
ResumeIdle ==
    /\ rIn = << >>
    /\ rPc = "build"
    /\ rParams = << >>
    /\ rValid = TRUE
    /\ rHandle = FALSE

\* No file is being looked up outside the registrations.
FindIdle ==
    /\ fPaths = << >>
    /\ fInfo = FALSE
    /\ fTarget = << >>
    /\ fResult = << >>

\* The threads that call hf_hub_download.
CtxThreads == {"u1", "u2"}

\* No thread is inside hf_hub_download and none has called http_get.
CtxIdle ==
    /\ cLocal = [u \in CtxThreads |-> NoContext]
    /\ cFrames = [u \in CtxThreads |-> << >>]
    /\ cSeen = [u \in CtxThreads |-> << >>]

\* The sessions whose monitors share lt_session.
AlertSessions == {"A", "B"}

\* No resume data was asked for and no alert is queued.
AlertIdle ==
    /\ aAsked = [m \in AlertSessions |-> 0]
    /\ aPosted = [m \in AlertSessions |-> 0]
    /\ aQueue = << >>
    /\ aWritten = [m \in AlertSessions |-> 0]

Init ==
    /\ CoreInit
    /\ lt_available \in BOOLEAN
    /\ hf_installed = TRUE
    /\ PackageInit
    /\ SeederInit
    /\ TrackerIdle
    /\ MapIdle
    /\ ResumeIdle
    /\ FindIdle
    /\ CtxIdle
    /\ AlertIdle

\* ------------------------------------------------- P2PBatchManager (locks)

\* A manager whose lock is not honoured.
MgrLockFree_Ignored == TRUE

\* `with self._lock:` can be entered.
MgrLockFree == mgrLock = NoThread

\* `with self.lock:` of the SessionContext of key k can be entered.
SessLockFree(k) == lock[k] = NoThread

\* A fresh SessionContext (SessionContext.__init__).
NewSession(k, td, tmo) ==
    /\ timeout' = [timeout EXCEPT ![k] = tmo]
    /\ handle' = [handle EXCEPT ![k] = 0]
    /\ is_valid' = [is_valid EXCEPT ![k] = TRUE]
    /\ torrent_info_obj' = [torrent_info_obj EXCEPT ![k] = FALSE]
    /\ torrent_data' = [torrent_data EXCEPT ![k] = td]
    /\ lock' = [lock EXCEPT ![k] = NoThread]
    /\ file_events' = [file_events EXCEPT ![k] = [f \in FileNames |-> "none"]]
    /\ file_destinations' =
           [file_destinations EXCEPT ![k] = [f \in FileNames |-> "none"]]
    /\ nEvents' = [nEvents EXCEPT ![k] = [f \in FileNames |-> 0]]

\* A registration that takes libtorrent to be there.
EngineAvailable_Assumed == TRUE

\* The `LIBTORRENT_AVAILABLE` test of a registration.
EngineAvailable == lt_available

\* register_request / register_seeding_task, up to the membership test:
\* `if not LIBTORRENT_AVAILABLE: return False`, else the thread enters
\* `with self._lock` and evaluates `repo_key not in self.sessions`.
EnterManager(t) ==
    LET k == ThreadKey(t) IN
    /\ pc[t] = "idle"
    /\ calls < MaxCalls
    /\ calls' = calls + 1
    /\ IF ~EngineAvailable
       THEN /\ pc' = [pc EXCEPT ![t] = "done"]
            /\ ret' = [ret EXCEPT ![t] = "False"]
            /\ UNCHANGED << mgrLock, startedInvalid >>
       ELSE /\ MgrLockFree
            /\ mgrLock' = t
            /\ pc' = [pc EXCEPT ![t] = IF sessions[k] = 0 THEN "mgr_create"
                                                          ELSE "mgr_get"]
            /\ startedInvalid' =
                   [startedInvalid EXCEPT
                       ![t] = sessions[k] # 0 /\ ~is_valid[k]]
            /\ UNCHANGED ret
    /\ UNCHANGED << sessions, nCtx, sessVars, engVars, monPc, ctx, initRet,
                    timedOut, queried, missed, added, retTarget,
                    metaTimedOut >>
    /\ UNCHANGED otherVars

\* Download threads and destinations are interchangeable: t1 names the
\* download thread that registers first and d1 the destination it passes.
InOrder(t, d) ==
    /\ t = "t1" => d = "d1"
    /\ t = "t2" => pc["t1"] # "idle"

\* register_request(repo_id, revision, filename, temp_file_path, ...)
RegisterRequest(t, f, d) ==
    /\ t \in DlThreads
    /\ InOrder(t, d)
    /\ EnterManager(t)
    /\ fname' = [fname EXCEPT ![t] = f]
    /\ dest' = [dest EXCEPT ![t] = d]

\* register_seeding_task(repo_id, revision, tracker_client, torrent_data)
RegisterSeedingTask(t) ==
    /\ t \in SeedThreads
    /\ EnterManager(t)
    /\ UNCHANGED << fname, dest >>

\* self.sessions[repo_key] = SessionContext(...): a download registration
\* passes its timeout and no torrent_data, a seeding registration a timeout
\* of 30 and maybe torrent_data.
MgrCreate(t) ==
    LET k == ThreadKey(t) IN
    /\ pc[t] = "mgr_create"
    /\ \E td \in (IF t \in SeedThreads THEN BOOLEAN ELSE {FALSE}) :
           NewSession(k, td, IF t \in SeedThreads THEN SeedingTimeout
                                                   ELSE TimeoutArg(dest[t]))
    /\ nCtx' = [nCtx EXCEPT ![k] = @ + 1]
    /\ sessions' = [sessions EXCEPT ![k] = nCtx[k] + 1]
    /\ pc' = [pc EXCEPT ![t] = "mgr_get"]
    /\ UNCHANGED << mgrLock, engVars, monPc, callVars >>
    /\ UNCHANGED otherVars

\* A lookup that delegates to the session inside `with self._lock`.
MgrGet_Holding(t) ==
    LET k == ThreadKey(t) IN
    /\ pc[t] = "mgr_get"
    /\ ctx' = [ctx EXCEPT ![t] = sessions[k]]
    /\ pc' = [pc EXCEPT ![t] = IF t \in DlThreads THEN "df_enter"
                                                  ELSE "st_valid"]
    /\ UNCHANGED << mgrVars, sessVars, engVars, monPc, fname, dest,
                    initRet, ret, timedOut, startedInvalid, queried, missed,
                    added, retTarget, metaTimedOut, calls >>
    /\ UNCHANGED otherVars

\* session_ctx = self.sessions[repo_key], and the end of `with self._lock`.
MgrGet(t) ==
    LET k == ThreadKey(t) IN
    /\ pc[t] = "mgr_get"
    /\ ctx' = [ctx EXCEPT ![t] = sessions[k]]
    /\ mgrLock' = NoThread
    /\ pc' = [pc EXCEPT ![t] = IF t \in DlThreads THEN "df_enter"
                                                  ELSE "st_valid"]
    /\ UNCHANGED << sessions, nCtx, sessVars, engVars, monPc, fname, dest,
                    initRet, ret, timedOut, startedInvalid, queried, missed,
                    added, retTarget, metaTimedOut, calls >>
    /\ UNCHANGED otherVars

\* ------------------------------------------- SessionContext._init_torrent

\* Where a thread continues when _init_torrent returns.
AfterInit(t) == IF t \in DlThreads THEN "df_reg" ELSE "st_after"

\* `if self.handle is not None: return True`
ItCheck(t) ==
    LET k == ThreadKey(t) IN
    /\ pc[t] = "it_check"
    /\ IF handle[k] # 0
       THEN /\ initRet' = [initRet EXCEPT ![t] = TRUE]
            /\ pc' = [pc EXCEPT ![t] = AfterInit(t)]
       ELSE /\ pc' = [pc EXCEPT ![t] = "it_query"]
            /\ UNCHANGED initRet
    /\ UNCHANGED << mgrVars, sessVars, engVars, monPc, ctx, fname, dest, ret,
                    timedOut, startedInvalid, queried, missed, added,
                    retTarget, metaTimedOut, calls >>
    /\ UNCHANGED otherVars

\* What the tracker lookup of _init_torrent yields from the answer to the
\* query for the revision and, for a commit hash that was not found, the
\* answer to the retry for 'main'.
Resolved(k, first, second) ==
    IF first = "none" /\ RevisionLen(k) >= 40 THEN second ELSE first

\* The tracker lookup: without a 'magnet_link' the session becomes invalid
\* and _init_torrent returns False.
ItQuery(t) ==
    LET k == ThreadKey(t) IN
    /\ pc[t] = "it_query"
    /\ queried' = [queried EXCEPT ![t] = TRUE]
    /\ \E first \in TrackerAnswers, second \in TrackerAnswers :
           IF Resolved(k, first, second) = "magnet"
           THEN /\ pc' = [pc EXCEPT ![t] = "it_add"]
                /\ UNCHANGED << is_valid, initRet, missed >>
           ELSE /\ is_valid' = [is_valid EXCEPT ![k] = FALSE]
                /\ initRet' = [initRet EXCEPT ![t] = FALSE]
                /\ missed' = [missed EXCEPT ![t] = TRUE]
                /\ pc' = [pc EXCEPT ![t] = AfterInit(t)]
    /\ UNCHANGED << mgrVars, handle, torrent_info_obj, torrent_data, timeout, lock,
                    file_events, file_destinations, nEvents, engVars, monPc,
                    ctx, fname, dest, ret, timedOut, startedInvalid, added,
                    retTarget, metaTimedOut, calls >>
    /\ UNCHANGED otherVars

\* self.handle = self.lt_session.add_torrent(params), paused, and the start
\* of the monitor thread. Raw torrent data carries the metadata with it.
ItAdd(t) ==
    LET k == ThreadKey(t)
        h == nAdded + 1
    IN
    /\ pc[t] = "it_add"
    /\ h \in Handles
    /\ nAdded' = h
    /\ handle' = [handle EXCEPT ![k] = h]
    /\ hKey' = [hKey EXCEPT ![h] = k]
    /\ hState' = [hState EXCEPT ![h] = "added"]
    /\ hPaused' = [hPaused EXCEPT ![h] = TRUE]
    /\ hMeta' = [hMeta EXCEPT ![h] = torrent_data[k]]
    /\ monPc' = [monPc EXCEPT ![h] = "loop"]
    /\ added' = [added EXCEPT ![t] = TRUE]
    /\ pc' = [pc EXCEPT ![t] = "it_wait"]
    /\ UNCHANGED << mgrVars, is_valid, torrent_info_obj, torrent_data, timeout, lock,
                    file_events, file_destinations, nEvents, hPrio, hTarget,
                    hProg, hErr, hZeroed, hSaveReq, ctx, fname, dest,
                    initRet, ret, timedOut, startedInvalid, queried, missed,
                    retTarget, metaTimedOut, calls >>
    /\ UNCHANGED otherVars

\* The places of _init_torrent's try block where an engine call can raise.
InTry == {"it_add", "it_wait", "it_info", "it_prio", "it_resume"}

\* An exception handler that leaves the torrent in the engine and the
\* handle in place.
ExceptHandler_Keeps(t) ==
    LET k == ThreadKey(t) IN
    /\ is_valid' = [is_valid EXCEPT ![k] = FALSE]
    /\ initRet' = [initRet EXCEPT ![t] = FALSE]
    /\ pc' = [pc EXCEPT ![t] = AfterInit(t)]
    /\ UNCHANGED << mgrVars, handle, torrent_info_obj, torrent_data, timeout,
                    lock, file_events, file_destinations, nEvents, engVars,
                    monPc, ctx, fname, dest, ret, timedOut, startedInvalid,
                    queried, missed, added, retTarget, metaTimedOut, calls >>
    /\ UNCHANGED otherVars

\* `except Exception`: the session becomes invalid, the torrent self.handle
\* names is removed and self.handle cleared.
ExceptHandler(t) ==
    LET k == ThreadKey(t) IN
    /\ is_valid' = [is_valid EXCEPT ![k] = FALSE]
    /\ handle' = [handle EXCEPT ![k] = 0]
    /\ hState' = IF handle[k] # 0
                 THEN [hState EXCEPT ![handle[k]] = "removed"]
                 ELSE hState
    /\ initRet' = [initRet EXCEPT ![t] = FALSE]
    /\ pc' = [pc EXCEPT ![t] = AfterInit(t)]
    /\ UNCHANGED << mgrVars, torrent_info_obj, torrent_data, timeout, lock,
                    file_events, file_destinations, nEvents, nAdded, hKey,
                    hMeta, hPaused, hPrio, hTarget, hProg, hErr, hZeroed,
                    hSaveReq, monPc, ctx, fname, dest, ret, timedOut,
                    startedInvalid, queried, missed, added, retTarget, metaTimedOut, calls >>
    /\ UNCHANGED otherVars

\* An engine call of the try block raises.
ItException(t) ==
    /\ pc[t] \in InTry
    /\ ExceptHandler(t)

\* `while not self.handle.has_metadata()`: the metadata is there, or the
\* 8 seconds are over and _init_torrent returns False. A handle another
\* thread cleared meanwhile makes the call raise.
ItWait(t) ==
    LET k == ThreadKey(t) IN
    /\ pc[t] = "it_wait"
    /\ IF handle[k] = 0
       THEN ExceptHandler(t)
       ELSE /\ IF hMeta[handle[k]]
               THEN /\ pc' = [pc EXCEPT ![t] = "it_info"]
                    /\ UNCHANGED initRet
               ELSE /\ initRet' = [initRet EXCEPT ![t] = FALSE]
                    /\ pc' = [pc EXCEPT ![t] = AfterInit(t)]
            /\ metaTimedOut' =
                   [metaTimedOut EXCEPT ![t] = ~hMeta[handle[k]]]
            /\ UNCHANGED << mgrVars, sessVars, engVars, monPc, ctx, fname,
                            dest, ret, timedOut, startedInvalid, queried,
                            missed, added, retTarget, calls >>
    /\ UNCHANGED otherVars

\* self.torrent_info_obj = self.handle.get_torrent_info()
ItInfo(t) ==
    LET k == ThreadKey(t) IN
    /\ pc[t] = "it_info"
    /\ IF handle[k] = 0
       THEN ExceptHandler(t)
       ELSE /\ torrent_info_obj' =
                   [torrent_info_obj EXCEPT ![k] = hMeta[handle[k]]]
            /\ pc' = [pc EXCEPT ![t] = "it_prio"]
            /\ UNCHANGED << mgrVars, handle, is_valid, torrent_data, timeout, lock,
                            file_events, file_destinations, nEvents, engVars,
                            monPc, ctx, fname, dest, initRet, ret, timedOut,
                            startedInvalid, queried, missed, added,
                            retTarget, metaTimedOut, calls >>
    /\ UNCHANGED otherVars

\* self.handle.prioritize_files([0] * num_files)
ItPrio(t) ==
    LET k == ThreadKey(t) IN
    /\ pc[t] = "it_prio"
    /\ IF handle[k] = 0 \/ ~torrent_info_obj[k]
       THEN ExceptHandler(t)
       ELSE /\ hPrio' = [hPrio EXCEPT ![handle[k]] = [i \in FileIdx |-> 0]]
            /\ hZeroed' = [hZeroed EXCEPT ![handle[k]] = TRUE]
            /\ pc' = [pc EXCEPT ![t] = "it_resume"]
            /\ UNCHANGED << mgrVars, sessVars, nAdded, hKey, hState, hMeta,
                            hPaused, hTarget, hProg, hErr, hSaveReq, monPc,
                            ctx, fname, dest, initRet, ret, timedOut,
                            startedInvalid, queried, missed, added,
                            retTarget, metaTimedOut, calls >>
    /\ UNCHANGED otherVars

\* self.handle.resume(); return True
ItResume(t) ==
    LET k == ThreadKey(t) IN
    /\ pc[t] = "it_resume"
    /\ IF handle[k] = 0
       THEN ExceptHandler(t)
       ELSE /\ hPaused' = [hPaused EXCEPT ![handle[k]] = FALSE]
            /\ initRet' = [initRet EXCEPT ![t] = TRUE]
            /\ pc' = [pc EXCEPT ![t] = AfterInit(t)]
            /\ UNCHANGED << mgrVars, sessVars, nAdded, hKey, hState, hMeta,
                            hPrio, hTarget, hProg, hErr, hZeroed, hSaveReq,
                            monPc, ctx, fname, dest, ret, timedOut,
                            startedInvalid, queried, missed, added,
                            retTarget, metaTimedOut, calls >>
    /\ UNCHANGED otherVars

\* -------------------------------------------- SessionContext.download_file

\* A registration that goes on whatever is_valid says.
SessionValid_Ignored(k) == TRUE

\* The `self.is_valid` test a registration makes before it goes on.
SessionValid(k) == is_valid[k]

\* `with self.lock: if not self.is_valid: return False`
DfEnter(t) ==
    LET k == ThreadKey(t) IN
    /\ pc[t] = "df_enter"
    /\ SessLockFree(k)
    /\ IF ~SessionValid(k)
       THEN /\ pc' = [pc EXCEPT ![t] = "done"]
            /\ ret' = [ret EXCEPT ![t] = "False"]
            /\ UNCHANGED lock
       ELSE /\ lock' = [lock EXCEPT ![k] = t]
            /\ pc' = [pc EXCEPT ![t] = "it_check"]
            /\ UNCHANGED ret
    /\ UNCHANGED << mgrVars, handle, is_valid, torrent_info_obj,
                    torrent_data, timeout, file_events, file_destinations, nEvents,
                    engVars, monPc, ctx, fname, dest, initRet, timedOut,
                    startedInvalid, queried, missed, added, retTarget, metaTimedOut, calls >>
    /\ UNCHANGED otherVars

\* A download_file that builds an Event whatever file_events holds.
NeedsEvent_Always(k, f) == TRUE

\* Whether download_file finds no Event for the filename and builds one
\* (`event = self.file_events.get(filename); if not event:`).
NeedsEvent(k, f) == file_events[k][f] = "none"

\* download_file after _init_torrent returned: the give-up test, the lookup
\* of the filename's Event and, for a new filename, its registration with
\* the rename and the priority change when the index resolves.
DfReg(t) ==
    LET k   == ThreadKey(t)
        f   == fname[t]
        idx == FindFileIndex(torrent_info_obj[k], f)
        h   == handle[k]
    IN
    /\ pc[t] = "df_reg"
    /\ IF ~initRet[t] /\ ~is_valid[k]
       THEN \* return False
            /\ lock' = [lock EXCEPT ![k] = NoThread]
            /\ pc' = [pc EXCEPT ![t] = "done"]
            /\ ret' = [ret EXCEPT ![t] = "False"]
            /\ UNCHANGED << file_events, file_destinations, nEvents, hTarget,
                            hPrio >>
       ELSE IF ~NeedsEvent(k, f)
       THEN \* the filename is registered: wait on its Event
            /\ lock' = [lock EXCEPT ![k] = NoThread]
            /\ pc' = [pc EXCEPT ![t] = "df_wait"]
            /\ UNCHANGED << ret, file_events, file_destinations, nEvents,
                            hTarget, hPrio >>
       ELSE /\ file_events' = [file_events EXCEPT ![k][f] = "unset"]
            /\ file_destinations' =
                   [file_destinations EXCEPT ![k][f] = dest[t]]
            /\ nEvents' = [nEvents EXCEPT ![k][f] = @ + 1]
            /\ IF idx = 0
               THEN \* on to the `else:` branch, the lock still held
                    /\ pc' = [pc EXCEPT ![t] = "df_else"]
                    /\ UNCHANGED << lock, ret, hTarget, hPrio >>
               ELSE IF h = 0
               THEN \* self.handle is None: the call raises out of
                    \* download_file, which releases the lock
                    /\ lock' = [lock EXCEPT ![k] = NoThread]
                    /\ pc' = [pc EXCEPT ![t] = "done"]
                    /\ ret' = [ret EXCEPT ![t] = "Raised"]
                    /\ UNCHANGED << hTarget, hPrio >>
               ELSE \* rename_file(file_index, destination);
                    \* file_priority(file_index, 1)
                    /\ hTarget' = [hTarget EXCEPT ![h][idx] = dest[t]]
                    /\ hPrio' = [hPrio EXCEPT ![h][idx] = 1]
                    /\ lock' = [lock EXCEPT ![k] = NoThread]
                    /\ pc' = [pc EXCEPT ![t] = "df_wait"]
                    /\ UNCHANGED ret
    /\ UNCHANGED << mgrVars, handle, is_valid, torrent_info_obj,
                    torrent_data, timeout, nAdded, hKey, hState, hMeta, hPaused,
                    hProg, hErr, hZeroed, hSaveReq, monPc, ctx, fname, dest,
                    initRet, timedOut, startedInvalid, queried, missed, added,
                    retTarget, metaTimedOut, calls >>
    /\ UNCHANGED otherVars

\* A download_file that takes the metadata for known at all times.
MetadataPending_Never(k) == FALSE

\* `if not self.torrent_info_obj:`
MetadataPending(k) == ~torrent_info_obj[k]

\* `if not self.torrent_info_obj:` queue the file, `else: return False`
DfElse(t) ==
    LET k == ThreadKey(t) IN
    /\ pc[t] = "df_else"
    /\ lock' = [lock EXCEPT ![k] = NoThread]
    /\ IF MetadataPending(k)
       THEN /\ pc' = [pc EXCEPT ![t] = "df_wait"]
            /\ UNCHANGED ret
       ELSE /\ pc' = [pc EXCEPT ![t] = "done"]
            /\ ret' = [ret EXCEPT ![t] = "False"]
    /\ UNCHANGED << mgrVars, handle, is_valid, torrent_info_obj,
                    torrent_data, timeout, file_events, file_destinations, nEvents,
                    engVars, monPc, ctx, fname, dest, initRet, timedOut,
                    startedInvalid, queried, missed, added, retTarget, metaTimedOut, calls >>
    /\ UNCHANGED otherVars

\* Where the bytes of the file a filename resolves to are stored now.
StoredAt(k, f) ==
    LET idx == FindFileIndex(torrent_info_obj[k], f) IN
    IF handle[k] # 0 /\ idx # 0 THEN hTarget[handle[k]][idx] ELSE "none"

\* A wait whose result is not looked at.
WaitSucceeded_Always(k, f) == TRUE

\* What event.wait(timeout=self.timeout) returns: whether the Event is set.
WaitSucceeded(k, f) == file_events[k][f] = "set"

\* The bound of thread t's wait: `timeout=self.timeout`, the timeout of the
\* SessionContext.
WaitBound(t) == timeout[ThreadKey(t)]

\* A wait that, when it times out, withdraws the request: it forgets the
\* filename's Event and destination.
DfWait_Withdraws(t) ==
    LET k == ThreadKey(t)
        f == fname[t]
    IN
    /\ pc[t] = "df_wait"
    /\ pc' = [pc EXCEPT ![t] = "done"]
    /\ IF file_events[k][f] = "set"
       THEN /\ ret' = [ret EXCEPT ![t] = "True"]
            /\ retTarget' = [retTarget EXCEPT ![t] = StoredAt(k, f)]
            /\ UNCHANGED << timedOut, file_events, file_destinations >>
       ELSE /\ ret' = [ret EXCEPT ![t] = "False"]
            /\ timedOut' = [timedOut EXCEPT ![t] = TRUE]
            /\ file_events' = [file_events EXCEPT ![k][f] = "none"]
            /\ file_destinations' = [file_destinations EXCEPT ![k][f] = "none"]
            /\ UNCHANGED retTarget
    /\ UNCHANGED << mgrVars, handle, is_valid, torrent_info_obj, torrent_data,
                    timeout, lock, nEvents, engVars, monPc, ctx, fname, dest,
                    initRet, startedInvalid, queried, missed, added,
                    metaTimedOut, calls >>
    /\ UNCHANGED otherVars

\* success = event.wait(timeout=self.timeout): the Event is set and the call
\* returns True, or the timeout passes first and it returns False.
DfWait(t) ==
    LET k == ThreadKey(t)
        f == fname[t]
    IN
    /\ pc[t] = "df_wait"
    /\ pc' = [pc EXCEPT ![t] = "done"]
    /\ IF WaitSucceeded(k, f)
       THEN /\ ret' = [ret EXCEPT ![t] = "True"]
            /\ retTarget' = [retTarget EXCEPT ![t] = StoredAt(k, f)]
            /\ UNCHANGED timedOut
       ELSE /\ ret' = [ret EXCEPT ![t] = "False"]
            /\ timedOut' = [timedOut EXCEPT ![t] = TRUE]
            /\ UNCHANGED retTarget
    /\ UNCHANGED << mgrVars, sessVars, engVars, monPc, ctx, fname, dest,
                    initRet, startedInvalid, queried, missed, added,
                    metaTimedOut, calls >>
    /\ UNCHANGED otherVars

\* ---------------------------------- register_seeding_task, after the lookup

\* `if not session_ctx.is_valid: return False`, else on to _init_torrent,
\* without the session's lock.
StValid(t) ==
    LET k == ThreadKey(t) IN
    /\ pc[t] = "st_valid"
    /\ IF ~SessionValid(k)
       THEN /\ pc' = [pc EXCEPT ![t] = "done"]
            /\ ret' = [ret EXCEPT ![t] = "False"]
       ELSE /\ pc' = [pc EXCEPT ![t] = "it_check"]
            /\ UNCHANGED ret
    /\ UNCHANGED << mgrVars, sessVars, engVars, monPc, ctx, fname, dest,
                    initRet, timedOut, startedInvalid, queried, missed, added,
                    retTarget, metaTimedOut, calls >>
    /\ UNCHANGED otherVars

\* `if not success: return False`, then map_all_files_for_seeding's
\* `if not self.handle or not self.torrent_info_obj: return False`.
StAfter(t) ==
    LET k == ThreadKey(t) IN
    /\ pc[t] = "st_after"
    /\ IF ~initRet[t] \/ handle[k] = 0 \/ ~torrent_info_obj[k]
       THEN /\ pc' = [pc EXCEPT ![t] = "done"]
            /\ ret' = [ret EXCEPT ![t] = "False"]
       ELSE /\ pc' = [pc EXCEPT ![t] = "map_files"]
            /\ UNCHANGED ret
    /\ UNCHANGED << mgrVars, sessVars, engVars, monPc, ctx, fname, dest,
                    initRet, timedOut, startedInvalid, queried, missed, added,
                    retTarget, metaTimedOut, calls >>
    /\ UNCHANGED otherVars

\* s.startswith(p)
StartsWith(s, p) == Len(s) >= Len(p) /\ SubSeq(s, 1, Len(p)) = p

\* p in s
Contains(s, p) ==
    \E i \in 1 .. Len(s) :
        i + Len(p) - 1 <= Len(s) /\ SubSeq(s, i, i + Len(p) - 1) = p

\* Whether a file path of the torrent is that of a libtorrent padding file.
IsPadPath(path) ==
    LET lt_path     == Normalize(path)
        parts       == SplitOnce(lt_path)
        target_norm == IF Len(parts) = 2 THEN parts[2] ELSE lt_path
    IN  \/ StartsWith(target_norm, <<".", "p", "a", "d", "/">>)
        \/ Contains(target_norm, <<"/", ".", "p", "a", "d", "/">>)

\* Whether file i is a libtorrent padding file.
IsPad(i) == IsPadPath(TorrentFiles[i].path)

\* The loop of map_all_files_for_seeding: a padding file is renamed to a
\* zero-filled file, a file the Hugging Face cache holds to its cache path.
MapFiles(t) ==
    LET k == ThreadKey(t)
        h == handle[k]
    IN
    /\ pc[t] = "map_files"
    /\ IF h = 0
       THEN /\ pc' = [pc EXCEPT ![t] = "done"]
            /\ ret' = [ret EXCEPT ![t] = "Raised"]
            /\ UNCHANGED hTarget
       ELSE /\ \E cached \in [FileIdx -> BOOLEAN] :
                   hTarget' = [hTarget EXCEPT ![h] =
                       [i \in FileIdx |->
                           IF IsPad(i) THEN "pad"
                           ELSE IF cached[i] THEN "cache"
                           ELSE hTarget[h][i]]]
            /\ pc' = [pc EXCEPT ![t] = "map_resume"]
            /\ UNCHANGED ret
    /\ UNCHANGED << mgrVars, sessVars, nAdded, hKey, hState, hMeta, hPaused,
                    hPrio, hProg, hErr, hZeroed, hSaveReq, monPc, ctx, fname,
                    dest, initRet, timedOut, startedInvalid, queried, missed,
                    added, retTarget, metaTimedOut, calls >>
    /\ UNCHANGED otherVars

\* self.handle.resume(); return True
MapResume(t) ==
    LET k == ThreadKey(t)
        h == handle[k]
    IN
    /\ pc[t] = "map_resume"
    /\ pc' = [pc EXCEPT ![t] = "done"]
    /\ IF h = 0
       THEN /\ ret' = [ret EXCEPT ![t] = "Raised"]
            /\ UNCHANGED hPaused
       ELSE /\ ret' = [ret EXCEPT ![t] = "True"]
            /\ hPaused' = [hPaused EXCEPT ![h] = FALSE]
    /\ UNCHANGED << mgrVars, sessVars, nAdded, hKey, hState, hMeta, hPrio,
                    hTarget, hProg, hErr, hZeroed, hSaveReq, monPc, ctx,
                    fname, dest, initRet, timedOut, startedInvalid, queried,
                    missed, added, retTarget, metaTimedOut, calls >>
    /\ UNCHANGED otherVars

\* ------------------------------------------ SessionContext._monitor_loop

\* `while self.is_valid and self.handle:` followed by `time.sleep(1)`
MonLoop(h) ==
    LET k == hKey[h] IN
    /\ monPc[h] = "loop"
    /\ monPc' = [monPc EXCEPT ![h] = IF is_valid[k] /\ handle[k] # 0
                                     THEN "body" ELSE "exited"]
    /\ UNCHANGED << mgrVars, sessVars, engVars, pc, callVars >>
    /\ UNCHANGED otherVars

\* A completion test that forgets the size must not be zero.
IsComplete_ZeroToo(progress_bytes, file_size) == progress_bytes = file_size

\* A completion test that asks for more bytes than the file has.
IsComplete_Exceeds(progress_bytes, file_size) ==
    progress_bytes > file_size /\ file_size > 0

\* `if progress_bytes == file_size and file_size > 0:`
IsComplete(progress_bytes, file_size) ==
    progress_bytes = file_size /\ file_size > 0

\* A mapping test against the priority of a fresh torrent instead of 0.
NeedsMapping_Default(priority) == priority = DefaultPriority

\* `if self.handle.file_priorities()[file_index] == 0:`
NeedsMapping(priority) == priority = 0

\* pending_files: the filenames whose Event is not set.
PendingFiles(k) == {f \in FileNames : file_events[k][f] = "unset"}

\* The pending filenames that resolve to file index i.
PendingAt(k, i) == {f \in PendingFiles(k) : FindFileIndex(TRUE, f) = i}

\* A monitor that never notices the torrent's error.
HasError_Never(h) == FALSE

\* `status.errc.value() != 0`, or an error alert popped for this torrent.
HasError(h) == hErr[h]

\* One pass of the loop body under `with self.lock:`. cur is self.handle.
\* A pass that raises (file_priorities() of a handle without metadata is
\* empty) is caught by the loop's `except Exception` and changes nothing.
\* The pass is taken as one step: the lock shuts download registrations out
\* of it, and the engine calls of a pass are taken to succeed.
MonPass(h) ==
    LET k       == hKey[h]
        cur     == handle[k]
        zeroNow == ~torrent_info_obj[k] /\ hMeta[cur]
        prio0   == IF zeroNow THEN [i \in FileIdx |-> 0] ELSE hPrio[cur]
        hit     == {i \in FileIdx : PendingAt(k, i) # {}}
        nameAt(i) == CHOOSE f \in PendingAt(k, i) : TRUE
        belated == {i \in hit : NeedsMapping(prio0[i])}
        done    == {i \in hit :
                       IsComplete(hProg[cur][i], TorrentFiles[i].size)}
    IN
    /\ monPc[h] = "body"
    /\ SessLockFree(k)
    /\ IF cur = 0
       THEN \* `if not self.handle: break`
            /\ monPc' = [monPc EXCEPT ![h] = "exited"]
            /\ UNCHANGED << is_valid, torrent_info_obj, file_events, hPrio,
                            hTarget, hZeroed, hSaveReq >>
       ELSE IF HasError(cur)
       THEN \* `if has_error: self.is_valid = False; break`
            /\ is_valid' = [is_valid EXCEPT ![k] = FALSE]
            /\ monPc' = [monPc EXCEPT ![h] = "exited"]
            /\ UNCHANGED << torrent_info_obj, file_events, hPrio, hTarget,
                            hZeroed, hSaveReq >>
       ELSE IF PendingFiles(k) = {} \/ (~torrent_info_obj[k] /\ ~hMeta[cur])
       THEN \* `continue`: nothing pending, or still no metadata
            /\ monPc' = [monPc EXCEPT ![h] = "loop"]
            /\ UNCHANGED << is_valid, torrent_info_obj, file_events, hPrio,
                            hTarget, hZeroed, hSaveReq >>
       ELSE IF ~hMeta[cur] /\ hit # {}
       THEN \* IndexError, caught
            /\ monPc' = [monPc EXCEPT ![h] = "loop"]
            /\ UNCHANGED << is_valid, torrent_info_obj, file_events, hPrio,
                            hTarget, hZeroed, hSaveReq >>
       ELSE /\ monPc' = [monPc EXCEPT ![h] = "loop"]
            /\ torrent_info_obj' = [torrent_info_obj EXCEPT ![k] = TRUE]
            /\ hZeroed' = [hZeroed EXCEPT ![cur] = @ \/ zeroNow]
            /\ hTarget' = [hTarget EXCEPT ![cur] =
                   [i \in FileIdx |->
                       IF i \in belated
                       THEN file_destinations[k][nameAt(i)]
                       ELSE hTarget[cur][i]]]
            /\ hPrio' = [hPrio EXCEPT ![cur] =
                   [i \in FileIdx |->
                       IF i \in done THEN 0
                       ELSE IF i \in belated THEN 1
                       ELSE prio0[i]]]
            /\ file_events' = [file_events EXCEPT ![k] =
                   [f \in FileNames |->
                       IF \E i \in done : f \in PendingAt(k, i)
                       THEN "set" ELSE file_events[k][f]]]
            /\ hSaveReq' = [hSaveReq EXCEPT ![cur] = @ \/ done # {}]
            /\ UNCHANGED is_valid
    /\ UNCHANGED << mgrVars, handle, torrent_data, timeout, lock, file_destinations,
                    nEvents, nAdded, hKey, hState, hMeta, hPaused, hProg,
                    hErr, pc, callVars >>
    /\ UNCHANGED otherVars

\* ------------------------------------------------ the libtorrent session

\* The torrents the program still looks at: a handle no SessionContext
\* holds is never asked anything again, so what the engine does with it is
\* left out.
Observed(h) == hState[h] = "added" /\ handle[hKey[h]] = h

\* The metadata of an added torrent arrives from the swarm.
EngineMetadata(h) ==
    /\ Observed(h)
    /\ ~hMeta[h]
    /\ hMeta' = [hMeta EXCEPT ![h] = TRUE]
    /\ UNCHANGED << mgrVars, sessVars, nAdded, hKey, hState, hPaused, hPrio,
                    hTarget, hProg, hErr, hZeroed, hSaveReq, monPc, pc,
                    callVars >>
    /\ UNCHANGED otherVars

\* A byte of a wanted file of a running torrent arrives.
EngineProgress(h, i) ==
    /\ Observed(h)
    /\ hMeta[h]
    /\ ~hPaused[h]
    /\ hPrio[h][i] > 0
    /\ hProg[h][i] < TorrentFiles[i].size
    /\ hProg' = [hProg EXCEPT ![h][i] = @ + 1]
    /\ UNCHANGED << mgrVars, sessVars, nAdded, hKey, hState, hMeta, hPaused,
                    hPrio, hTarget, hErr, hZeroed, hSaveReq, monPc, pc,
                    callVars >>
    /\ UNCHANGED otherVars

\* The torrent runs into an error the engine reports in its status.
EngineError(h) ==
    /\ Observed(h)
    /\ ~hErr[h]
    /\ hErr' = [hErr EXCEPT ![h] = TRUE]
    /\ UNCHANGED << mgrVars, sessVars, nAdded, hKey, hState, hMeta, hPaused,
                    hPrio, hTarget, hProg, hZeroed, hSaveReq, monPc, pc,
                    callVars >>
    /\ UNCHANGED otherVars

\* ------------------------------------------------------- specifications

Next ==
    \/ \E t \in DlThreads, f \in FileNames, d \in Dests :
           RegisterRequest(t, f, d)
    \/ \E t \in SeedThreads : RegisterSeedingTask(t)
    \/ \E t \in Callers : MgrCreate(t)
    \/ \E t \in Callers : MgrGet(t)
    \/ \E t \in Callers : ItCheck(t)
    \/ \E t \in Callers : ItQuery(t)
    \/ \E t \in Callers : ItAdd(t)
    \/ \E t \in Callers : ItException(t)
    \/ \E t \in Callers : ItWait(t)
    \/ \E t \in Callers : ItInfo(t)
    \/ \E t \in Callers : ItPrio(t)
    \/ \E t \in Callers : ItResume(t)
    \/ \E t \in DlThreads : DfEnter(t)
    \/ \E t \in DlThreads : DfReg(t)
    \/ \E t \in DlThreads : DfElse(t)
    \/ \E t \in DlThreads : DfWait(t)
    \/ \E t \in SeedThreads : StValid(t)
    \/ \E t \in SeedThreads : StAfter(t)
    \/ \E t \in SeedThreads : MapFiles(t)
    \/ \E t \in SeedThreads : MapResume(t)
    \/ \E h \in Handles : MonLoop(h)
    \/ \E h \in Handles : MonPass(h)
    \/ \E h \in Handles : EngineMetadata(h)
    \/ \E h \in Handles, i \in FileIdx : EngineProgress(h, i)
    \/ \E h \in Handles : EngineError(h)

Spec == Init /\ [][Next]_vars

\* The steps of a registration that is under way: a Python thread that can
\* run is scheduled, a lock that is free is acquired, a wait with a timeout
\* returns.
CallerStep(t) ==
    \/ MgrCreate(t) \/ MgrGet(t)
    \/ ItCheck(t) \/ ItQuery(t) \/ ItAdd(t) \/ ItWait(t) \/ ItInfo(t)
    \/ ItPrio(t) \/ ItResume(t)
    \/ (t \in DlThreads /\ (DfEnter(t) \/ DfReg(t) \/ DfElse(t) \/ DfWait(t)))
    \/ (t \in SeedThreads
            /\ (StValid(t) \/ StAfter(t) \/ MapFiles(t) \/ MapResume(t)))

\* The steps of the monitor thread started with handle h.
MonStep(h) == MonLoop(h) \/ MonPass(h)

\* What happens while only download registrations arrive.
DlNext ==
    \/ \E t \in DlThreads, f \in FileNames, d \in Dests :
           RegisterRequest(t, f, d)
    \/ \E t \in DlThreads : MgrCreate(t)
    \/ \E t \in DlThreads : MgrGet(t)
    \/ \E t \in DlThreads : ItCheck(t)
    \/ \E t \in DlThreads : ItQuery(t)
    \/ \E t \in DlThreads : ItAdd(t)
    \/ \E t \in DlThreads : ItException(t)
    \/ \E t \in DlThreads : ItWait(t)
    \/ \E t \in DlThreads : ItInfo(t)
    \/ \E t \in DlThreads : ItPrio(t)
    \/ \E t \in DlThreads : ItResume(t)
    \/ \E t \in DlThreads : DfEnter(t)
    \/ \E t \in DlThreads : DfReg(t)
    \/ \E t \in DlThreads : DfElse(t)
    \/ \E t \in DlThreads : DfWait(t)
    \/ \E h \in Handles : MonLoop(h)
    \/ \E h \in Handles : MonPass(h)
    \/ \E h \in Handles : EngineMetadata(h)
    \/ \E h \in Handles, i \in FileIdx : EngineProgress(h, i)
    \/ \E h \in Handles : EngineError(h)

\* Download registrations with the threads of the program kept running: a
\* registration that can take a step is not held up for ever, nor is every
\* monitor thread. The engine and the swarm owe nothing.
DlFairSpec ==
    /\ Init /\ [][DlNext]_vars
    /\ WF_vars(\E t \in DlThreads : CallerStep(t))
    /\ WF_vars(\E h \in Handles : MonStep(h))

\* ================================================================ claims

\* The download threads that came back from event.wait.
Waited(t) == pc[t] = "done" /\ (ret[t] = "True" \/ timedOut[t])

\* ------------------------------------------------- the patch (patch.py)

\* The call log with one more call, cut to its last two.
Logged(log, call) ==
    IF Len(log) < 2 THEN Append(log, call) ELSE << log[2], call >>

\* An apply_patch that never finds the patch already applied.
AlreadyApplied_Never == FALSE

\* `if _original_hf_hub_download is not None`
AlreadyApplied == original_hf # << >>

\* apply_patch. A function of huggingface_hub is a number: 0 is the
\* library's own, v + 1 the patched closure around v.
ApplyPatch ==
    /\ patchLog' = Logged(patchLog, "apply")
    /\ IF AlreadyApplied \/ ~hf_installed
       THEN UNCHANGED slotVars
       ELSE /\ original_hf' = << hub_hf >>
            /\ original_http' = << fd_http >>
            /\ hub_hf' = hub_hf + 1
            /\ fd_hf' = hub_hf + 1
            /\ snap_hf' = hub_hf + 1
            /\ fd_http' = fd_http + 1
            /\ UNCHANGED hf_installed

\* remove_patch
RemovePatch ==
    /\ patchLog' = Logged(patchLog, "remove")
    /\ IF original_hf = << >> \/ ~hf_installed
       THEN UNCHANGED slotVars
       ELSE /\ hub_hf' = original_hf[1]
            /\ fd_hf' = original_hf[1]
            /\ snap_hf' = original_hf[1]
            /\ fd_http' = original_http[1]
            /\ original_hf' = << >>
            /\ original_http' = << >>
            /\ UNCHANGED hf_installed

\* A direct call of apply_patch.
ApplyPatchCall ==
    /\ ApplyPatch
    /\ UNCHANGED << coreVars, lt_available, besideApi, pkgVars, getVars >>

\* A direct call of remove_patch.
RemovePatchCall ==
    /\ RemovePatch
    /\ UNCHANGED << coreVars, lt_available, besideApi, pkgVars, getVars >>

\* --------------------------------------------- the package (__init__.py)

\* Arguments enable_p2p is called with.
EnableArgs ==
    { DefaultConfig,
      [tracker_url |-> "u1", auto_seed |-> FALSE, seed_duration |-> 7200,
       timeout |-> 600],
      [tracker_url |-> "u2", auto_seed |-> TRUE, seed_duration |-> 0,
       timeout |-> 60] }

\* Values of the environment variable HF_P2P_TRACKER.
EnvTracker == {"None", "e1"}

\* tracker_url or os.getenv('HF_P2P_TRACKER') or 'http://localhost:8080'
TrackerUrl(tracker_url, env) ==
    IF tracker_url # "None" THEN tracker_url
    ELSE IF env # "None" THEN env
    ELSE "http://localhost:8080"

\* An enable_p2p that never finds P2P already enabled.
AlreadyEnabled_Never == FALSE

\* `if _patched`
AlreadyEnabled == patched

\* enable_p2p
EnableP2P(a, env) ==
    /\ enableArgs' = a
    /\ lastApi' = "enable"
    /\ IF ~lt_available \/ AlreadyEnabled
       THEN UNCHANGED << patched, config, patchVars >>
       ELSE /\ config' = [tracker_url |-> TrackerUrl(a.tracker_url, env),
                          auto_seed |-> a.auto_seed,
                          seed_duration |-> a.seed_duration,
                          timeout |-> a.timeout]
            /\ ApplyPatch
            /\ patched' = TRUE
    /\ UNCHANGED << coreVars, lt_available, besideApi, getVars >>

\* disable_p2p
DisableP2P ==
    /\ lastApi' = "disable"
    /\ IF ~patched
       THEN UNCHANGED << patched, patchVars >>
       ELSE /\ RemovePatch
            /\ patched' = FALSE
    /\ UNCHANGED << coreVars, lt_available, besideApi, config, enableArgs, getVars >>

\* is_enabled()
is_enabled == patched

\* get_config()
get_config == config

\* ------------------------------------ the intercepted download (patch.py)

\* revision arguments of hf_hub_download: absent ('main' is taken), None, a
\* commit hash.
Revisions == {"main", "None", "abc"}

\* subfolder arguments of hf_hub_download.
Subfolders == {"None", "", "s"}

\* actual_filename of patched_hf_hub_download, as path components.
ActualFilename(filename, subfolder) ==
    IF subfolder = "None" \/ subfolder = ""
    THEN << filename >>
    ELSE << subfolder, filename >>

\* A context test that leaves the revision out.
HasContext_NoRevision(c) ==
    c.repo_id \notin {"None", ""} /\ c.filename # << >> /\ c.tracker # "None"

\* `if repo_id and filename and tracker and revision`
HasContext(c) ==
    /\ c.repo_id \notin {"None", ""}
    /\ c.filename # << >>
    /\ c.tracker # "None"
    /\ c.revision \notin {"None", ""}

\* hf_hub_download is entered: the patched function stores the context, the
\* library's own does not.
HfHubDownload(revision, subfolder) ==
    /\ apiPc = "idle"
    /\ apiPc' = "in_hf"
    /\ tctx' = IF hub_hf > 0
               THEN [repo_id |-> "r",
                     filename |-> ActualFilename("f", subfolder),
                     revision |-> revision, tracker |-> "tracker"]
               ELSE tctx
    /\ UNCHANGED << coreVars, lt_available, besideApi, pkgVars, patchVars, lastGet >>

\* hf_hub_download returns: `finally` puts the previous context back.
HfReturn ==
    /\ apiPc = "in_hf"
    /\ apiPc' = "idle"
    /\ tctx' = NoContext
    /\ UNCHANGED << coreVars, lt_available, besideApi, pkgVars, patchVars, lastGet >>

\* What register_request may do for the intercepted call: return True or
\* False, or raise; without libtorrent it cannot return True.
RegisterOutcomes ==
    IF lt_available THEN {"True", "False", "raise"} ELSE {"False", "raise"}

\* file_download.http_get is called, inside hf_hub_download or not. The
\* patched function registers the file when the thread has a context and
\* calls orig_http unless the registration returned True.
HttpGet ==
    /\ IF fd_http = 0
       THEN lastGet' = [done |-> TRUE, intercepted |-> FALSE, ctx |-> tctx,
                        reg |-> "none", orig |-> 1]
       ELSE IF HasContext(tctx)
       THEN \E out \in RegisterOutcomes :
                lastGet' = [done |-> TRUE, intercepted |-> TRUE, ctx |-> tctx,
                            reg |-> out,
                            orig |-> IF out = "True" THEN 0 ELSE 1]
       ELSE lastGet' = [done |-> TRUE, intercepted |-> TRUE, ctx |-> tctx,
                        reg |-> "none", orig |-> 1]
    /\ UNCHANGED << coreVars, lt_available, besideApi, pkgVars, patchVars, tctx, apiPc >>

\* The package driven through its interface, the coordination layer idle.
ApiInit ==
    /\ CoreInit
    /\ lt_available \in BOOLEAN
    /\ hf_installed \in BOOLEAN
    /\ PackageInit
    /\ SeederInit
    /\ TrackerIdle
    /\ MapIdle
    /\ ResumeIdle
    /\ FindIdle
    /\ CtxIdle
    /\ AlertIdle

ApiNext ==
    \/ \E a \in EnableArgs, env \in EnvTracker : EnableP2P(a, env)
    \/ DisableP2P
    \/ ApplyPatchCall
    \/ RemovePatchCall
    \/ \E r \in Revisions, sub \in Subfolders : HfHubDownload(r, sub)
    \/ HfReturn
    \/ HttpGet

ApiSpec == ApiInit /\ [][ApiNext]_vars

\* ------------------------------------------------- the seeder (seeder.py)

\* The worker thread w that start_seeding started for hash h has not
\* returned.
Running(w, h) == wPc[w] \in {"starting", "seeding"} /\ wHash[w] = h

\* start_seeding(torrent_info, ...) with info hash h, "None" when
\* torrent_info has none: the worker thread w is started unless the hash is
\* registered already.
StartSeeding(w, h) ==
    /\ wPc[w] = "none"
    /\ IF ~lt_available \/ h = "None" \/ h \in seeding_sessions
       THEN UNCHANGED << wPc, wHash >>
       ELSE /\ wPc' = [wPc EXCEPT ![w] = "starting"]
            /\ wHash' = [wHash EXCEPT ![w] = h]
    /\ UNCHANGED << seeding_sessions, stopLog, wOwner, wTorrent, wStopAfter >>
    /\ UNCHANGED << coreVars, lt_available, besideSeeder >>

\* _seed_worker adds the torrent and stores its session under the hash.
WorkerRegister(w) ==
    /\ wPc[w] = "starting"
    /\ wPc' = [wPc EXCEPT ![w] = "seeding"]
    /\ seeding_sessions' = seeding_sessions \cup {wHash[w]}
    /\ stopLog' = << >>
    /\ wTorrent' = [wTorrent EXCEPT ![w] = "added"]
    /\ wOwner' = [wOwner EXCEPT ![wHash[w]] = w]
    /\ UNCHANGED << wHash, wStopAfter >>
    /\ UNCHANGED << coreVars, lt_available, besideSeeder >>

\* _seed_worker leaves its loop, because the duration is over or because
\* its hash is no longer registered, or fails before it; `finally` removes
\* the hash if it is registered.
WorkerExit(w) ==
    /\ wPc[w] \in {"starting", "seeding"}
    /\ wPc' = [wPc EXCEPT ![w] = "exited"]
    /\ seeding_sessions' = seeding_sessions \ {wHash[w]}
    /\ stopLog' = IF wHash[w] \in seeding_sessions THEN << >> ELSE stopLog
    /\ wOwner' = [wOwner EXCEPT ![wHash[w]] = "none"]
    /\ wTorrent' = [v \in Workers |->
           IF wHash[w] \in seeding_sessions /\ v = wOwner[wHash[w]]
           THEN "removed"
           ELSE IF v = w /\ wTorrent[w] = "added"
           THEN "released"
           ELSE wTorrent[v]]
    /\ UNCHANGED << wHash, wStopAfter >>
    /\ UNCHANGED << coreVars, lt_available, besideSeeder >>

\* stop_seeding(info_hash)
StopSeeding(h) ==
    /\ seeding_sessions' = seeding_sessions \ {h}
    /\ stopLog' = IF h \in seeding_sessions THEN << >> ELSE stopLog
    /\ wOwner' = [wOwner EXCEPT ![h] = "none"]
    /\ wStopAfter' = [w \in Workers |-> wStopAfter[w] \/ Running(w, h)]
    /\ UNCHANGED << wPc, wHash, wTorrent >>
    /\ UNCHANGED << coreVars, lt_available, besideSeeder >>

\* A stop_all_seeding that forgets to clear.
AfterStopAll_Kept(registered) == registered

\* _seeding_sessions.clear()
AfterStopAll(registered) == {}

\* stop_all_seeding: count = len(_seeding_sessions), clear, return count.
StopAllSeeding ==
    /\ stopLog' = Logged(stopLog, Cardinality(seeding_sessions))
    /\ seeding_sessions' = AfterStopAll(seeding_sessions)
    /\ wOwner' = [h \in Hashes |->
                      IF h \in seeding_sessions' THEN wOwner[h] ELSE "none"]
    /\ wStopAfter' = [w \in Workers |->
                          wStopAfter[w] \/ \E h \in Hashes : Running(w, h)]
    /\ UNCHANGED << wPc, wHash, wTorrent >>
    /\ UNCHANGED << coreVars, lt_available, besideSeeder >>

\* The seeder driven through its interface, all else idle.
SeederInitial ==
    /\ CoreInit
    /\ lt_available \in BOOLEAN
    /\ hf_installed = TRUE
    /\ PackageInit
    /\ SeederInit
    /\ TrackerIdle
    /\ MapIdle
    /\ ResumeIdle
    /\ FindIdle
    /\ CtxIdle
    /\ AlertIdle

SeederNext ==
    \/ \E w \in Workers, h \in Hashes \cup {"None"} : StartSeeding(w, h)
    \/ \E w \in Workers : WorkerRegister(w)
    \/ \E w \in Workers : WorkerExit(w)
    \/ \E h \in Hashes : StopSeeding(h)
    \/ StopAllSeeding

SeederSpec == SeederInitial /\ [][SeederNext]_vars

\* The worker's loop finds its hash gone (`if info_hash not in
\* _seeding_sessions: break`) and the worker returns.
WorkerStopped(w) ==
    /\ wPc[w] = "seeding"
    /\ wHash[w] \notin seeding_sessions
    /\ WorkerExit(w)

\* The seeder with its worker threads kept running: a started worker gets
\* to store its session, and a worker whose hash is gone gets to see it.
\* Nothing makes a seeding duration run out.
SeederFairSpec ==
    /\ SeederInitial /\ [][SeederNext]_vars
    /\ \A w \in Workers : WF_vars(WorkerRegister(w))
    /\ \A w \in Workers : WF_vars(WorkerStopped(w))

\* ------------------------------------ TrackerClient (tracker_client.py)

\* Revisions of the entries a tracker lists, and revisions asked for.
EntryRevisions == {"main", "old"}
AskedRevisions == {"None", "main", "old", "gone"}

\* Lists of at most MaxEntries entries, each entry given by its revision.
EntryLists ==
    UNION { [1 .. n -> EntryRevisions] : n \in 0 .. MaxEntries }

\* What the GET may bring: no answer (a RequestException), status 404,
\* status 500, or status 200 with a JSON object holding the list of entries
\* under 'data' or under 'torrents'.
Responses ==
    [kind : {"timeout", "404", "500", "200"},
     key  : {"data", "torrents"},
     list : EntryLists]

\* data.get('torrents') of the JSON object: None is the empty list here.
TorrentsOf(resp) ==
    IF resp.key = "torrents" THEN resp.list ELSE << >>

\* TrackerClient.get_torrent_info: the position of the entry returned, 0
\* for None. commit_hash only goes into the query's parameters.
GetTorrentInfo(resp, commit_hash) ==
    IF resp.kind = "timeout" THEN 0
    ELSE IF resp.kind = "404" THEN 0
    ELSE IF resp.kind = "500" THEN 0
    ELSE IF Len(TorrentsOf(resp)) > 0 THEN 1
    ELSE 0

\* get_torrent_info is called and returns.
QueryTracker ==
    /\ ~tDone
    /\ tDone' = TRUE
    /\ tResult' = GetTorrentInfo(tResp, tRev)
    /\ UNCHANGED << tResp, tRev >>
    /\ UNCHANGED << coreVars, lt_available, besideTracker >>

\* One query, for any answer of the tracker and any revision.
TrackerInit ==
    /\ CoreInit
    /\ lt_available = TRUE
    /\ hf_installed = TRUE
    /\ PackageInit
    /\ SeederInit
    /\ MapIdle
    /\ ResumeIdle
    /\ FindIdle
    /\ CtxIdle
    /\ AlertIdle
    /\ tResp \in Responses
    /\ tRev \in AskedRevisions
    /\ tDone = FALSE
    /\ tResult = 0

TrackerNext == QueryTracker

TrackerSpec == TrackerInit /\ [][TrackerNext]_vars

\* --------------------------- map_all_files_for_seeding, for any torrent

\* File lists of torrents, as libtorrent gives them: path, size, and
\* whether libtorrent made the entry as padding.
RealA == [path |-> <<"r", "/", "a">>, size |-> SizeA, pad |-> FALSE]
RealB == [path |-> <<"r", "/", "s", "/", "b">>, size |-> SizeA, pad |-> FALSE]
PadEntry ==
    [path |-> <<"r", "/", ".", "p", "a", "d", "/", "1">>, size |-> PadSize,
     pad |-> TRUE]
FileLists == { << RealA >>, << RealA, PadEntry >>, << RealA, PadEntry, RealB >> }

\* What try_to_load_from_cache does for a file: returns a path, returns
\* None, returns the marker of a file known not to exist, or raises.
CacheAnswers == {"path", "None", "no_exist", "raise"}

\* A padding file written empty.
PadBytes_Empty(file_size) == 0

\* Length of b'\x00' * file_size
PadBytes(file_size) == file_size

\* map_all_files_for_seeding
MapAll ==
    /\ mRet = "None"
    /\ IF ~mHandle \/ ~mInfo
       THEN /\ mRet' = "False"
            /\ UNCHANGED << mPadFiles, mTarget, mResumed >>
       ELSE /\ mPadFiles' =
                [i \in DOMAIN mFiles |->
                    IF IsPadPath(mFiles[i].path) /\ mPadFiles[i] = << >>
                    THEN << PadBytes(mFiles[i].size) >>
                    ELSE mPadFiles[i]]
            /\ mTarget' =
                [i \in DOMAIN mFiles |->
                    IF IsPadPath(mFiles[i].path) THEN "pad"
                    ELSE IF mCache[i] = "path" THEN "cache"
                    ELSE mTarget[i]]
            /\ mResumed' = TRUE
            /\ mRet' = "True"
    /\ UNCHANGED << mFiles, mHandle, mInfo, mCache >>
    /\ UNCHANGED << coreVars, lt_available, besideMap >>

\* One mapping, for any torrent, any state of the cache, with and without
\* the padding files of an earlier mapping in pad_dir.
SeedMapInit ==
    /\ CoreInit
    /\ lt_available = TRUE
    /\ hf_installed = TRUE
    /\ PackageInit
    /\ SeederInit
    /\ TrackerIdle
    /\ mFiles \in FileLists
    /\ mHandle \in BOOLEAN
    /\ mInfo \in BOOLEAN
    /\ mCache \in [DOMAIN mFiles -> CacheAnswers]
    /\ \E there \in BOOLEAN :
           mPadFiles = [i \in DOMAIN mFiles |->
                           IF mFiles[i].pad /\ there
                           THEN << mFiles[i].size >> ELSE << >>]
    /\ mTarget = [i \in DOMAIN mFiles |-> "orig"]
    /\ mResumed = FALSE
    /\ mRet = "None"
    /\ ResumeIdle
    /\ FindIdle
    /\ CtxIdle
    /\ AlertIdle

SeedMapNext == MapAll

SeedMapSpec == SeedMapInit /\ [][SeedMapNext]_vars

\* ------------------------- adding the torrent (_init_torrent, lines 184-284)

\* What a run of the try block meets.
\*   data     self.torrent_data was given
\*   seeder   self.is_seeder
\*   locator  "ok", or "bad": lt.torrent_info / lt.parse_magnet_uri raises
\*   file     the file at fastresume_path: "absent"; "unreadable" (open
\*            raises); "corrupt" (neither bdecode nor read_resume_data
\*            takes it); "valid"
\*   api      hasattr(lt.add_torrent_params, "parse_resume_data")
\*   saved    what a valid file holds: whether the torrent's info, whether
\*            the seed_mode flag
\*   engine   "ok", or "rejects": add_torrent raises
ResumeInputs ==
    [data : BOOLEAN, seeder : BOOLEAN, locator : {"ok", "bad"},
     file : {"absent", "unreadable", "corrupt", "valid"}, api : BOOLEAN,
     saved : [ti : BOOLEAN, seed_mode : BOOLEAN],
     engine : {"ok", "rejects"}]

\* params before the resume file is looked at (lines 185-212).
BuiltParams(in) ==
    [ti |-> in.data, paused |-> TRUE, seed_mode |-> in.seeder,
     renamed_files |-> FALSE, resumed |-> FALSE]

\* The exception that leaves the inner part of the resume block: open()
\* raises OSError on a file that cannot be read; bdecode's exception is
\* swallowed by `except Exception: pass`; read_resume_data raises on bytes
\* that are no resume data.
ResumeRaises(in) ==
    IF in.file = "unreadable" THEN "OSError"
    ELSE IF in.file = "corrupt" /\ in.api THEN "RuntimeError"
    ELSE "none"

\* A handler that lets the engine's own exceptions through.
CaughtByWarning_OnlyOSError(e) == e = "OSError"

\* `except Exception as e: logger.warning(...)` (lines 236-237): OSError and
\* the engine's RuntimeError are both Exceptions.
CaughtByWarning(e) == e \in {"OSError", "RuntimeError"}

\* params after the resume block, when nothing raised out of it.
LoadedParams(in, params) ==
    IF in.file # "valid" THEN params
    ELSE IF ~in.api THEN [params EXCEPT !.renamed_files = TRUE]
    ELSE \* params = lt.read_resume_data(resume_data); save_path, url and
         \* the paused flag are set again
         [ti |-> in.saved.ti, paused |-> TRUE,
          seed_mode |-> in.saved.seed_mode, renamed_files |-> TRUE,
          resumed |-> TRUE]

\* `except Exception` of _init_torrent (lines 277-284).
InitFails ==
    /\ rValid' = FALSE
    /\ rHandle' = FALSE
    /\ rPc' = "failed"
    /\ UNCHANGED << rIn, rParams >>

\* Lines 185-212: params from the raw torrent or from the magnet link.
BuildParams ==
    /\ rPc = "build"
    /\ IF rIn.locator = "bad"
       THEN InitFails
       ELSE /\ rParams' = << BuiltParams(rIn) >>
            /\ rPc' = "resume"
            /\ UNCHANGED << rIn, rValid, rHandle >>
    /\ UNCHANGED << coreVars, lt_available, besideResume >>

\* Lines 215-237: `if os.path.exists(self.fastresume_path)`.
LoadResume ==
    /\ rPc = "resume"
    /\ IF ResumeRaises(rIn) = "none"
       THEN /\ rParams' = << LoadedParams(rIn, rParams[1]) >>
            /\ rPc' = "add"
            /\ UNCHANGED << rIn, rValid, rHandle >>
       ELSE IF CaughtByWarning(ResumeRaises(rIn))
       THEN /\ rPc' = "add"
            /\ UNCHANGED << rIn, rParams, rValid, rHandle >>
       ELSE InitFails
    /\ UNCHANGED << coreVars, lt_available, besideResume >>

\* Line 239: self.handle = self.lt_session.add_torrent(params)
AddTorrent ==
    /\ rPc = "add"
    /\ IF rIn.engine = "rejects"
       THEN InitFails
       ELSE /\ rHandle' = TRUE
            /\ rPc' = "added"
            /\ UNCHANGED << rIn, rParams, rValid >>
    /\ UNCHANGED << coreVars, lt_available, besideResume >>

ResumeInit ==
    /\ CoreInit
    /\ lt_available = TRUE
    /\ hf_installed = TRUE
    /\ PackageInit
    /\ SeederInit
    /\ TrackerIdle
    /\ MapIdle
    /\ rIn \in ResumeInputs
    /\ rPc = "build"
    /\ rParams = << >>
    /\ rValid = TRUE
    /\ rHandle = FALSE
    /\ FindIdle
    /\ CtxIdle
    /\ AlertIdle

ResumeNext == BuildParams \/ LoadResume \/ AddTorrent

ResumeSpec == ResumeInit /\ [][ResumeNext]_vars

\* ------------------------------------- _find_file_index on any file list

\* The paths and filenames tried: up to MaxPathLen characters, each a
\* letter, a slash or a backslash.
Paths == UNION {[1 .. n -> {"a", "/", "\\"}] : n \in 1 .. MaxPathLen}

\* file_index = self._find_file_index(filename)
FindIndexCall ==
    /\ fResult = << >>
    /\ fResult' = << FindIndexFrom(fPaths, fInfo, 1, fTarget) >>
    /\ UNCHANGED << fPaths, fInfo, fTarget >>
    /\ UNCHANGED << coreVars, lt_available, apiVars, seederVars, trackerVars,
                    mapVars, resumeVars, ctxVars, alertVars >>

FindInit ==
    /\ CoreInit
    /\ lt_available = TRUE
    /\ hf_installed = TRUE
    /\ PackageInit
    /\ SeederInit
    /\ TrackerIdle
    /\ MapIdle
    /\ ResumeIdle
    /\ fPaths \in UNION {[1 .. n -> Paths] : n \in 0 .. MaxFiles}
    /\ fInfo \in BOOLEAN
    /\ fTarget \in Paths
    /\ fResult = << >>
    /\ CtxIdle
    /\ AlertIdle

FindSpec == FindInit /\ [][FindIndexCall]_vars

\* ------------------------------- the request context (patch.py, _context)

\* Deepest nesting of hf_hub_download calls on one thread.
MaxDepth == 2

\* A module-level object shared by every thread.
Slot_Shared(u) == "u1"

\* `_context = threading.local()`: each thread reads and writes attributes
\* of its own.
Slot(u) == u

\* patched_hf_hub_download(repo_id, ...) up to the call of orig_hf: the
\* prev_* locals take the thread's context, which is then overwritten.
CtxEnter(u, repo_id, revision) ==
    LET own == [repo_id |-> repo_id, filename |-> << "f" >>,
                revision |-> revision, tracker |-> "tracker"]
    IN
    /\ Len(cFrames[u]) < MaxDepth
    /\ cFrames' = [cFrames EXCEPT ![u] =
           Append(@, [own |-> own, prev |-> cLocal[Slot(u)]])]
    /\ cLocal' = [cLocal EXCEPT ![Slot(u)] = own]
    /\ UNCHANGED cSeen
    /\ UNCHANGED << coreVars, lt_available, apiVars, seederVars, trackerVars,
                    mapVars, resumeVars, findVars, alertVars >>

\* orig_hf returned or raised: `finally` puts the prev_* values back.
CtxExit(u) ==
    LET n == Len(cFrames[u]) IN
    /\ n > 0
    /\ cLocal' = [cLocal EXCEPT ![Slot(u)] = cFrames[u][n].prev]
    /\ cFrames' = [cFrames EXCEPT ![u] = SubSeq(@, 1, n - 1)]
    /\ UNCHANGED cSeen
    /\ UNCHANGED << coreVars, lt_available, apiVars, seederVars, trackerVars,
                    mapVars, resumeVars, findVars, alertVars >>

\* patched_http_get reads the context with getattr(_context, ...).
CtxHttpGet(u) ==
    /\ cSeen' = [cSeen EXCEPT ![u] = << cLocal[Slot(u)] >>]
    /\ UNCHANGED << cLocal, cFrames >>
    /\ UNCHANGED << coreVars, lt_available, apiVars, seederVars, trackerVars,
                    mapVars, resumeVars, findVars, alertVars >>

CtxInit ==
    /\ CoreInit
    /\ lt_available = TRUE
    /\ hf_installed = TRUE
    /\ PackageInit
    /\ SeederInit
    /\ TrackerIdle
    /\ MapIdle
    /\ ResumeIdle
    /\ FindIdle
    /\ CtxIdle
    /\ AlertIdle

CtxNext ==
    \/ \E u \in CtxThreads, r \in {"r1", "r2"}, rev \in {"main", "abc"} :
           CtxEnter(u, r, rev)
    \/ \E u \in CtxThreads : CtxExit(u)
    \/ \E u \in CtxThreads : CtxHttpGet(u)

CtxSpec == CtxInit /\ [][CtxNext]_vars

\* ------------------------- the alerts of the shared lt_session (440-461)

\* Resume snapshots asked for per session.
MaxSaves == 2

\* `self.handle.save_resume_data(...)`, every five seconds.
SaveResumeData(m) ==
    /\ aAsked[m] + aPosted[m] < MaxSaves
    /\ aAsked' = [aAsked EXCEPT ![m] = @ + 1]
    /\ UNCHANGED << aPosted, aQueue, aWritten >>
    /\ UNCHANGED << coreVars, lt_available, apiVars, seederVars, trackerVars,
                    mapVars, resumeVars, findVars, ctxVars >>

\* The engine answers a save_resume_data call with a
\* save_resume_data_alert naming the handle.
EngineAlert(m) ==
    /\ aAsked[m] > 0
    /\ aAsked' = [aAsked EXCEPT ![m] = @ - 1]
    /\ aPosted' = [aPosted EXCEPT ![m] = @ + 1]
    /\ aQueue' = Append(aQueue, m)
    /\ UNCHANGED aWritten
    /\ UNCHANGED << coreVars, lt_available, apiVars, seederVars, trackerVars,
                    mapVars, resumeVars, findVars, ctxVars >>

\* The alerts of the queue that name the handle of session m.
AlertsFor(m) == Len(SelectSeq(aQueue, LAMBDA a : a = m))

\* Session m's monitor: `alerts = self.lt_session.pop_alerts()` empties
\* the queue; the loop writes the alerts with alert.handle == self.handle
\* and passes over the others.
PopAlerts(m) ==
    /\ aQueue # << >>
    /\ aWritten' = [aWritten EXCEPT ![m] = @ + AlertsFor(m)]
    /\ aQueue' = << >>
    /\ UNCHANGED << aAsked, aPosted >>
    /\ UNCHANGED << coreVars, lt_available, apiVars, seederVars, trackerVars,
                    mapVars, resumeVars, findVars, ctxVars >>

AlertInit ==
    /\ CoreInit
    /\ lt_available = TRUE
    /\ hf_installed = TRUE
    /\ PackageInit
    /\ SeederInit
    /\ TrackerIdle
    /\ MapIdle
    /\ ResumeIdle
    /\ FindIdle
    /\ CtxIdle
    /\ AlertIdle

AlertNext ==
    \/ \E m \in AlertSessions : SaveResumeData(m)
    \/ \E m \in AlertSessions : EngineAlert(m)
    \/ \E m \in AlertSessions : PopAlerts(m)

AlertSpec == AlertInit /\ [][AlertNext]_vars

\* ------------------------------------------------------------------- C1

\* C1: for every key at most one SessionContext is ever built, the map entry
\* is that one instance once it exists, and every caller that looked the key
\* up holds that same instance.
C1_OneSessionPerKey ==
    /\ \A k \in Keys : nCtx[k] <= 1 /\ sessions[k] = nCtx[k]
    /\ \A t \in Callers : ctx[t] # 0 => ctx[t] = sessions[ThreadKey(t)]

\* A download registration and a seeding registration of the same key both
\* hold the session, one of them having waited for the other's lookup.
C1_Witness ==
    /\ ctx["t1"] = 1
    /\ ctx["s1"] = 1
    /\ ThreadKey("t1") = ThreadKey("s1")
    /\ nCtx[ThreadKey("t1")] = 1

\* ------------------------------------------------------------------- C2

\* The torrents that were added to the engine for key k.
AddedFor(k) == {h \in Handles : hState[h] # "absent" /\ hKey[h] = k}

\* The torrents of key k the engine holds.
LiveFor(k) == {h \in Handles : hState[h] = "added" /\ hKey[h] = k}

\* C2: for every key add_torrent is performed at most once and at most one
\* transfer handle exists at any time.
C2_AtMostOneTransfer ==
    \A k \in Keys :
        Cardinality(AddedFor(k)) <= 1 /\ Cardinality(LiveFor(k)) <= 1

\* ------------------------------------------------------------------- C3

\* A step in which thread t passes download_file's lookup of a filename
\* that is registered already.
SecondRegistration(t) ==
    /\ pc[t] = "df_reg"
    /\ pc'[t] # "df_reg"
    /\ initRet[t] \/ is_valid[ThreadKey(t)]
    /\ file_events[ThreadKey(t)][fname[t]] # "none"

\* C3: a download_file call for a filename that is registered already
\* builds no second Event, leaves the recorded destination alone, issues no
\* rename and no priority change, and goes on to wait on the existing Event.
C3_SecondRegistrationChangesNothing ==
    [][\A t \in DlThreads :
          SecondRegistration(t) =>
              /\ nEvents' = nEvents
              /\ file_events' = file_events
              /\ file_destinations' = file_destinations
              /\ hTarget' = hTarget
              /\ hPrio' = hPrio
              /\ pc'[t] = "df_wait"]_vars

\* The second caller of a filename waits on the Event of the first, having
\* passed another destination than the recorded one.
C3_Witness ==
    /\ pc["t2"] = "df_wait"
    /\ fname["t2"] = fname["t1"]
    /\ nEvents[ThreadKey("t2")][fname["t2"]] = 1
    /\ file_destinations[ThreadKey("t2")][fname["t2"]] = "d1"
    /\ dest["t2"] = "d2"

\* ------------------------------------------------------------------- C4

EventGetsSet(k, f) ==
    file_events[k][f] # "set" /\ file_events'[k][f] = "set"

\* C5: an Event is set only in a step in which the engine reports, for the
\* index the filename resolves to, as many downloaded bytes as the file's
\* size, the size not being zero; a set Event stays set.
C5_SetOnlyWhenComplete ==
    [][\A k \in Keys, f \in FileNames :
          /\ EventGetsSet(k, f) =>
                 /\ handle[k] # 0
                 /\ FindFileIndex(TRUE, f) # 0
                 /\ hProg[handle[k]][FindFileIndex(TRUE, f)]
                        = TorrentFiles[FindFileIndex(TRUE, f)].size
                 /\ TorrentFiles[FindFileIndex(TRUE, f)].size > 0
          /\ file_events[k][f] = "set" => file_events'[k][f] = "set"]_vars

\* The Event of the non-empty file is set while the empty file is pending.
C5_Witness ==
    /\ file_events["k1"][<<"a">>] = "set"
    /\ file_events["k1"][<<"z">>] = "unset"

\* ------------------------------------------------------------------- C6

\* The engine reports file f of key k complete: as many downloaded bytes as
\* the size of the index the filename resolves to, the size not being zero.
ReportsComplete(k, f) ==
    /\ handle[k] # 0
    /\ FindFileIndex(TRUE, f) # 0
    /\ hProg[handle[k]][FindFileIndex(TRUE, f)]
           = TorrentFiles[FindFileIndex(TRUE, f)].size
    /\ TorrentFiles[FindFileIndex(TRUE, f)].size > 0

\* File f of key k is pending in a valid session while the engine reports
\* it complete.
PendingComplete(k, f) ==
    file_events[k][f] = "unset" /\ is_valid[k] /\ ReportsComplete(k, f)

\* C6: a pending file whose index reports as many downloaded bytes as its
\* nonzero size, in a session that stays valid, eventually has its Event set
\* (it is not for ever pending, valid and reported complete); the filename
\* has one Event, and the step that sets it leaves the file's priority at 0
\* and a resume-data snapshot requested.
C6_CompletionIsSignalled ==
    /\ \A k \in Keys, f \in FileNames : []<>~PendingComplete(k, f)
    /\ [][\A k \in Keys, f \in FileNames :
             EventGetsSet(k, f) =>
                 /\ nEvents'[k][f] = 1
                 /\ hPrio'[handle[k]][FindFileIndex(TRUE, f)] = 0
                 /\ hSaveReq'[handle[k]]]_vars

\* The Event of a file was set, its priority is back at 0 and the snapshot
\* is requested.
C6_Witness ==
    /\ file_events["k1"][<<"a">>] = "set"
    /\ handle["k1"] # 0
    /\ hPrio[handle["k1"]][FindFileIndex(TRUE, <<"a">>)] = 0
    /\ hSaveReq[handle["k1"]]
    /\ is_valid["k1"]

\* ------------------------------------------------------------------- C7

\* C7: a caller that got True finds the file's bytes at its own
\* destination.
C7_DeliveredAtCallersDestination ==
    \A t \in DlThreads : ret[t] = "True" => retTarget[t] = dest[t]

\* ------------------------------------------------------------------- C8

\* C8: a registration whose tracker lookup found nothing adds no torrent,
\* leaves the session invalid and returns False; while no lookup for the key
\* has found anything there is no torrent, no handle and no monitor; and a
\* registration that starts on an invalid session returns False without
\* asking the tracker.
C8_ResolverMiss ==
    /\ \A t \in Callers :
           missed[t] =>
               /\ ~added[t]
               /\ ~is_valid[ThreadKey(t)]
               /\ pc[t] = "done" => ret[t] = "False"
    /\ (\A t \in Callers : queried[t] => missed[t]) =>
           /\ nAdded = 0
           /\ \A k \in Keys : handle[k] = 0
           /\ \A h \in Handles : monPc[h] = "none"
    /\ \A t \in Callers :
           startedInvalid[t] =>
               /\ ~queried[t]
               /\ ~added[t]
               /\ pc[t] = "done" => ret[t] = "False"

\* The first registration's lookup found nothing and a later registration
\* of the same key came back.
C8_Witness ==
    /\ missed["t1"] /\ pc["t1"] = "done"
    /\ startedInvalid["t2"] /\ pc["t2"] = "done"

\* ------------------------------------------------------------------- C9

\* The monitor thread started with handle h runs.
MonitorAlive(h) == monPc[h] \in {"loop", "body"}

\* C9: a download registration whose wait for the metadata ran out finds the
\* session valid, its torrent in the engine and its monitor running when
\* _init_torrent returns; its filename has an Event from then on; and it
\* returns False only when its own wait on that Event timed out.
C9_MetadataTimeout ==
    \A t \in DlThreads :
        metaTimedOut[t] =>
            /\ pc[t] = "df_reg" =>
                   /\ is_valid[ThreadKey(t)]
                   /\ handle[ThreadKey(t)] # 0
                   /\ hState[handle[ThreadKey(t)]] = "added"
                   /\ MonitorAlive(handle[ThreadKey(t)])
            /\ pc[t] \in {"df_else", "df_wait", "done"} =>
                   file_events[ThreadKey(t)][fname[t]] # "none"
            /\ (pc[t] = "done" /\ ret[t] = "False") => timedOut[t]

\* ------------------------------------------------------------------ C10

\* File f of key k is mapped: all priorities were zeroed, the file's storage
\* target is the recorded destination and its priority is raised.
Mapped(k, f) ==
    /\ handle[k] # 0
    /\ FindFileIndex(TRUE, f) # 0
    /\ hZeroed[handle[k]]
    /\ hTarget[handle[k]][FindFileIndex(TRUE, f)] = file_destinations[k][f]
    /\ hPrio[handle[k]][FindFileIndex(TRUE, f)] = 1

\* File f of key k is pending and not mapped, in a valid session whose
\* transfer has the metadata.
AwaitsMapping(k, f) ==
    /\ file_events[k][f] = "unset"
    /\ FindFileIndex(TRUE, f) # 0
    /\ is_valid[k]
    /\ handle[k] # 0
    /\ hMeta[handle[k]]
    /\ ~Mapped(k, f)

\* C10: a file that was queued while the metadata was pending, in a session
\* that stays valid and whose transfer has the metadata by now, is
\* eventually mapped by the monitor (priorities zeroed, storage target
\* renamed to the recorded destination, priority raised): no pending file is
\* for ever unmapped with the metadata there; and a queued request keeps its
\* Event and its destination.
C10_QueuedFileIsMapped ==
    /\ \A k \in Keys, f \in FileNames : []<>~AwaitsMapping(k, f)
    /\ [][\A k \in Keys, f \in FileNames :
             file_events[k][f] = "unset" =>
                 /\ file_events'[k][f] # "none"
                 /\ file_destinations'[k][f] = file_destinations[k][f]]_vars

\* The monitor mapped a file that was queued after the metadata wait ran out.
C10_Witness ==
    /\ metaTimedOut["t1"]
    /\ file_events["k1"][fname["t1"]] = "unset"
    /\ torrent_info_obj["k1"]
    /\ FindFileIndex(TRUE, fname["t1"]) # 0
    /\ Mapped("k1", fname["t1"])

\* ------------------------------------------------------------------ C11

\* C11: while libtorrent is unavailable no SessionContext is built, no
\* registration gets past its first test or asks the tracker, and every
\* registration that came back returned False.
C11_EngineUnavailable ==
    ~lt_available =>
        /\ \A k \in Keys : nCtx[k] = 0 /\ sessions[k] = 0
        /\ \A t \in Callers :
               /\ pc[t] \in {"idle", "done"}
               /\ ~queried[t]
               /\ pc[t] = "done" => ret[t] = "False"

\* Without libtorrent a download registration and a seeding registration
\* came back.
C11_Witness ==
    /\ ~lt_available
    /\ pc["t1"] = "done" /\ ret["t1"] = "False"
    /\ pc["s1"] = "done" /\ ret["s1"] = "False"

\* ------------------------------------------------------------------ C12

\* The session of key k acquires a transfer handle in this step.
AcquiresHandle(k) == handle'[k] # 0 /\ handle'[k] # handle[k]

\* A paused torrent of key k is resumed in this step.
ResumesTransfer(k) ==
    \E h \in Handles :
        hKey[h] = k /\ hState[h] = "added" /\ hPaused[h] /\ ~hPaused'[h]

\* C12: a session that is invalid stays invalid, and from then on it
\* acquires no transfer handle and resumes no transfer.
C12_InvalidIsFinal ==
    [][\A k \in Keys :
          ~is_valid[k] =>
              /\ ~is_valid'[k]
              /\ ~AcquiresHandle(k)
              /\ ~ResumesTransfer(k)]_vars

\* ------------------------------------------------------------------ C13

\* C13: a download registration that waits on its file's Event waits with
\* the timeout it was called with.
C13_WaitsWithOwnTimeout ==
    \A t \in DlThreads :
        pc[t] = "df_wait" => WaitBound(t) = TimeoutArg(dest[t])

\* ------------------------------------------------------------------ C14

\* Thread t comes back from event.wait in this step.
WaitReturns(t) == pc[t] = "df_wait" /\ pc'[t] = "done"

\* C14: a wait that times out changes nothing in the session, in the
\* engine or in the monitors (the filename keeps its Event and destination,
\* the file its priority), and a wait on an Event that is set, such as the
\* wait of a later registration of the filename, returns True.
C14_TimeoutChangesNothing ==
    [][\A t \in DlThreads :
          WaitReturns(t) =>
              IF file_events[ThreadKey(t)][fname[t]] = "set"
              THEN ret'[t] = "True"
              ELSE /\ ret'[t] = "False"
                   /\ sessVars' = sessVars
                   /\ engVars' = engVars
                   /\ monPc' = monPc]_vars

\* The first caller of a filename timed out, the file stayed pending with
\* its priority raised, the monitor set its Event afterwards and a later
\* registration of the filename returned True.
C14_Witness ==
    /\ timedOut["t1"] /\ ret["t1"] = "False"
    /\ fname["t2"] = fname["t1"]
    /\ file_events[ThreadKey("t1")][fname["t1"]] = "set"
    /\ file_destinations[ThreadKey("t1")][fname["t1"]] = dest["t1"]
    /\ ~metaTimedOut["t2"] /\ startedInvalid["t2"] = FALSE
    /\ pc["t2"] = "done" /\ ret["t2"] = "True"
    /\ nEvents[ThreadKey("t1")][fname["t1"]] = 1

\* ------------------------------------------------------------------ C15

\* The context of the claim: repo, filename, revision and tracker are set.
ContextSet(c) ==
    /\ c.repo_id \notin {"None", ""}
    /\ c.filename # << >>
    /\ c.revision \notin {"None", ""}
    /\ c.tracker # "None"

\* C15: an intercepted http_get does not call the original HTTP download
\* when register_request returned True, and calls it exactly once when
\* register_request returned False or raised, or when the thread has no
\* complete context (and then register_request is not called).
C15_HttpExactlyWhenNotDelivered ==
    (lastGet.done /\ lastGet.intercepted) =>
        /\ lastGet.reg = "True" => lastGet.orig = 0
        /\ lastGet.reg \in {"False", "raise"} => lastGet.orig = 1
        /\ ~ContextSet(lastGet.ctx) =>
               lastGet.reg = "none" /\ lastGet.orig = 1
        /\ ContextSet(lastGet.ctx) => lastGet.reg # "none"

\* An intercepted call with a full context was delivered by P2P and made
\* no HTTP download.
C15_Witness ==
    /\ lastGet.done /\ lastGet.intercepted
    /\ ContextSet(lastGet.ctx)
    /\ lastGet.reg = "True" /\ lastGet.orig = 0

\* An intercepted call on a thread whose revision is None went to HTTP.
C15_WitnessNoContext ==
    /\ lastGet.done /\ lastGet.intercepted
    /\ lastGet.ctx.revision = "None" /\ lastGet.ctx.repo_id = "r"
    /\ lastGet.orig = 1

\* ------------------------------------------------------------------ C16

\* C16: whatever calls of apply_patch and remove_patch were made, either
\* the patch is applied, the three hf_hub_download references and http_get
\* hold the closures around the library's own functions and those are
\* saved, or it is not and the library's own functions are in place.
C16_PatchAppliedOnce ==
    IF original_hf # << >>
    THEN /\ original_hf = << 0 >> /\ original_http = << 0 >>
         /\ hub_hf = 1 /\ fd_hf = 1 /\ snap_hf = 1 /\ fd_http = 1
    ELSE /\ original_http = << >>
         /\ hub_hf = 0 /\ fd_hf = 0 /\ snap_hf = 0 /\ fd_http = 0

\* apply_patch was called twice in a row and the closures around the
\* library's own functions are in place.
C16_Witness ==
    /\ patchLog = << "apply", "apply" >>
    /\ original_hf = << 0 >> /\ snap_hf = 1 /\ fd_http = 1

\* remove_patch was called after apply_patch and the library's own
\* functions are back.
C16_WitnessRemoved ==
    /\ patchLog = << "apply", "remove" >>
    /\ hf_installed /\ fd_hf = 0 /\ snap_hf = 0 /\ fd_http = 0

\* ------------------------------------------------------------------ C17

\* The configuration reports the arguments a: each value as passed, and a
\* tracker of its own choosing when none was passed.
Reports(c, a) ==
    /\ a.tracker_url # "None" => c.tracker_url = a.tracker_url
    /\ c.tracker_url # "None"
    /\ c.auto_seed = a.auto_seed
    /\ c.seed_duration = a.seed_duration
    /\ c.timeout = a.timeout

\* C17 as stated: after enable_p2p returned with libtorrent available,
\* is_enabled() is true and get_config() reports the values of that call;
\* after disable_p2p returned, is_enabled() is false.
C17_ConfigIsLastEnable ==
    /\ (lastApi = "enable" /\ lt_available) =>
           is_enabled /\ Reports(get_config, enableArgs)
    /\ lastApi = "disable" => ~is_enabled

\* An enable_p2p call returns in this step (seen when it follows a
\* disable_p2p or passes other arguments than the enable_p2p before it).
EnableReturns ==
    lastApi' = "enable" /\ (lastApi # "enable" \/ enableArgs' # enableArgs)

\* C17: after enable_p2p returned with libtorrent available is_enabled()
\* is true, after disable_p2p returned it is false; an enable_p2p called
\* while P2P is not enabled makes get_config() report its values, one called
\* while P2P is enabled leaves the configuration as it was.
C17_ConfigIsFirstEnable ==
    /\ [](/\ (lastApi = "enable" /\ lt_available) => is_enabled
          /\ lastApi = "disable" => ~is_enabled)
    /\ [][EnableReturns =>
             IF lt_available /\ ~is_enabled
             THEN Reports(config', enableArgs')
             ELSE config' = config]_vars

\* enable_p2p was called with other values while P2P was enabled: the
\* configuration is that of the earlier call.
C17_Witness ==
    /\ lastApi = "enable" /\ lt_available /\ is_enabled
    /\ enableArgs.tracker_url = "u2"
    /\ get_config.tracker_url = "u1" /\ get_config.timeout = 600

\* ------------------------------------------------------------------ C18

\* A stop_all_seeding call returns in this step.
StopAllReturns ==
    stopLog' # stopLog /\ stopLog' # << >>

FirstWithRevision(list, r) ==
    IF \E i \in DOMAIN list : list[i] = r
    THEN CHOOSE i \in DOMAIN list :
             list[i] = r /\ \A j \in 1 .. i - 1 : list[j] # r
    ELSE 0

\* C19: get_torrent_info returns None on a request error, on status 404
\* (or another error status) and on an empty list; otherwise, asked for a
\* revision, the entry of that revision or None if the list has none, and
\* asked for no revision the first entry.
C19_FiltersByRevision ==
    tDone =>
        tResult =
            IF tResp.kind # "200" \/ Len(tResp.list) = 0 THEN 0
            ELSE IF tRev = "None" THEN 1
            ELSE FirstWithRevision(tResp.list, tRev)

\* ------------------------------------------------------------------ C20

\* C20: with handle and metadata, the mapping gives every padding entry a
\* zero-filled file of its size and renames the entry to it, renames every
\* other file the cache holds to its cache path, leaves the others as they
\* were, resumes the torrent and returns True; without handle or metadata
\* it returns False, renames nothing and does not resume.
C20_MapsEveryFile ==
    mRet # "None" =>
        IF mHandle /\ mInfo
        THEN /\ mRet = "True"
             /\ mResumed
             /\ \A i \in DOMAIN mFiles :
                    IF mFiles[i].pad
                    THEN /\ mTarget[i] = "pad"
                         /\ mPadFiles[i] = << mFiles[i].size >>
                    ELSE mTarget[i] =
                             IF mCache[i] = "path" THEN "cache" ELSE "orig"
        ELSE /\ mRet = "False"
             /\ ~mResumed
             /\ \A i \in DOMAIN mFiles : mTarget[i] = "orig"

\* A torrent with a padding entry, a file in the cache and a file not in
\* it was mapped: the padding file was written, one file renamed, the other
\* left, and the call returned True.
C20_Witness ==
    /\ mRet = "True" /\ mResumed
    /\ Len(mFiles) = 3
    /\ mTarget = << "cache", "pad", "orig" >>
    /\ mPadFiles[2] = << PadSize >>
    /\ mCache[3] = "None"

\* Without metadata the call returned False.
C20_WitnessNoMetadata ==
    /\ mRet = "False" /\ mHandle /\ ~mInfo /\ Len(mFiles) = 3

\* ------------------------------------------------------------------ C21

\* Thread t is in a blocking wait: the sleep loop of the metadata wait or
\* the timed wait on a file's Event.
InBlockingWait(t) == pc[t] \in {"it_wait", "df_wait"}

\* C21: a thread in a blocking wait does not hold its session's lock, and
\* the only blocking wait of a registration is the one on the file's Event.
C21_NoWaitUnderSessionLock ==
    \A t \in Callers :
        InBlockingWait(t) =>
            /\ lock[ThreadKey(t)] # t
            /\ t \in DlThreads => pc[t] = "df_wait"

\* ------------------------------------------------------------------ C22

\* C22: a thread holds the manager's lock only for the lookup-or-create of
\* the session, never together with a session's lock, and the holder of a
\* lock never waits for another lock: it can always take its next step.
C22_ManagerLockOnlyForLookup ==
    \A t \in Callers :
        /\ mgrLock = t =>
               /\ pc[t] \in {"mgr_create", "mgr_get"}
               /\ \A k \in Keys : lock[k] # t
               /\ ENABLED CallerStep(t)
        /\ (\E k \in Keys : lock[k] = t) =>
               /\ mgrLock # t
               /\ ENABLED CallerStep(t)

\* One thread works under the session's lock while another does its lookup
\* under the manager's lock.
C22_Witness ==
    /\ lock["k1"] = "t1" /\ pc["t1"] = "it_wait"
    /\ mgrLock = "t2" /\ pc["t2"] = "mgr_get"

\* ------------------------------------------------------------------ C23

\* The step changes the mutable state of the session of key k or makes a
\* state-mutating engine call on one of its torrents.
MutatesSession(k) ==
    \/ handle'[k] # handle[k]
    \/ is_valid'[k] # is_valid[k]
    \/ torrent_info_obj'[k] # torrent_info_obj[k]
    \/ file_events'[k] # file_events[k]
    \/ file_destinations'[k] # file_destinations[k]
    \/ \E h \in Handles :
           /\ hKey'[h] = k
           /\ \/ hTarget'[h] # hTarget[h]
              \/ hPrio'[h] # hPrio[h]
              \/ hPaused'[h] # hPaused[h]
              \/ hState'[h] # hState[h]

\* C23: a step of a registration that changes a session's state or makes a
\* state-mutating engine call is taken by the holder of the session's lock
\* (the construction of the session aside), and so is a pass of the
\* monitor.
C23_MutationsUnderSessionLock ==
    [][/\ \A t \in Callers :
              (pc'[t] # pc[t] /\ sessions' = sessions
                  /\ MutatesSession(ThreadKey(t)))
                  => lock[ThreadKey(t)] = t
       /\ \A h \in Handles :
              (monPc'[h] # monPc[h] /\ monPc[h] # "none"
                  /\ MutatesSession(hKey[h]))
                  => lock[hKey[h]] = NoThread]_vars

\* ------------------------------------------------------------------ C24

\* The monitor threads started for the session of key k.
MonitorsOf(k) == {h \in Handles : hKey[h] = k /\ monPc[h] # "none"}

\* C24: a session starts at most one monitor thread, and one is started
\* with every torrent it adds.
C24_OneMonitorPerSession ==
    /\ \A k \in Keys : Cardinality(MonitorsOf(k)) <= 1
    /\ \A h \in Handles : hState[h] # "absent" <=> monPc[h] # "none"

\* ------------------------------------------------------------------ C25

\* C25: a torrent is added paused and its monitor started in the same
\* step, before the metadata wait; a torrent is resumed only after all its
\* priorities were set to 0; and an initialization that added a torrent
\* returns True only from its one resume() call.
C25_InitializationOrder ==
    [][/\ \A h \in Handles :
              /\ (hState[h] = "absent" /\ hState'[h] = "added") =>
                     /\ hPaused'[h] /\ monPc'[h] = "loop"
                     /\ \E t \in Callers : pc'[t] = "it_wait"
              /\ (hPaused[h] /\ ~hPaused'[h]) => hZeroed[h]
       /\ \A t \in Callers :
              (pc[t] \in InTry /\ pc'[t] = AfterInit(t) /\ initRet'[t]) =>
                  /\ pc[t] = "it_resume"
                  /\ ~hPaused'[handle[ThreadKey(t)]]]_vars

\* ------------------------------------------------------------------ C26

\* The monitor thread h ends a pass in which the torrent it watches
\* reports an error.
MonitorSeesError(h) ==
    /\ monPc[h] = "body" /\ monPc'[h] # "body"
    /\ handle[hKey[h]] # 0
    /\ hErr[handle[hKey[h]]]

\* The session of key k is invalid and it was a monitor that made it so:
\* no tracker lookup missed, no torrent was removed by _init_torrent's
\* exception handler, and a torrent of the key reported an error.
InvalidatedByMonitor(k) ==
    /\ ~is_valid[k]
    /\ \A t \in Callers : ~missed[t]
    /\ \A h \in Handles : hState[h] # "removed"
    /\ \E h \in Handles : hKey[h] = k /\ hErr[h]

\* An Event of key k is set in this step.
SetsAnEvent(k) ==
    \E f \in FileNames :
        file_events[k][f] # "set" /\ file_events'[k][f] = "set"

\* C26: the monitor pass that sees a torrent error makes the session
\* invalid and ends the monitor without touching an Event; in an invalid
\* session no Event is set any more, so a caller waiting on one returns
\* False when its wait times out; and a registration that starts on the
\* invalid session returns False without waiting.
C26_MonitorErrorInvalidates ==
    /\ [][\A h \in Handles :
              MonitorSeesError(h) =>
                  /\ ~is_valid'[hKey[h]]
                  /\ monPc'[h] = "exited"
                  /\ file_events' = file_events]_vars
    /\ [][\A k \in Keys : InvalidatedByMonitor(k) => ~SetsAnEvent(k)]_vars
    /\ [][\A t \in DlThreads :
              (WaitReturns(t) /\ InvalidatedByMonitor(ThreadKey(t))
                  /\ file_events[ThreadKey(t)][fname[t]] # "set")
                  => ret'[t] = "False" /\ timedOut'[t]]_vars
    /\ [](\A t \in Callers :
              (startedInvalid[t] /\ pc[t] = "done"
                  /\ InvalidatedByMonitor(ThreadKey(t))) =>
                  ret[t] = "False" /\ ~timedOut[t])

\* The monitor saw an error while t1 waited for its file: t1 timed out and
\* returned False, and t2, registering afterwards, returned False at once.
C26_Witness ==
    /\ \E h \in Handles : hErr[h] /\ monPc[h] = "exited" /\ handle["k1"] = h
    /\ InvalidatedByMonitor("k1")
    /\ pc["t1"] = "done" /\ timedOut["t1"] /\ ret["t1"] = "False"
    /\ startedInvalid["t2"] /\ pc["t2"] = "done" /\ ret["t2"] = "False"

\* ------------------------------------------------------------------ C27

\* An engine call of _init_torrent's try block raised in this step of t:
\* the call came back False without the metadata wait having run out.
Raised(t) ==
    /\ pc[t] \in InTry
    /\ pc'[t] = AfterInit(t)
    /\ ~initRet'[t]
    /\ ~metaTimedOut'[t]

\* t is back from an _init_torrent that raised.
BackFromRaise(t) ==
    /\ pc[t] = AfterInit(t)
    /\ ~initRet[t] /\ ~metaTimedOut[t] /\ ~missed[t] /\ queried[t]

\* A monitor thread still runs for a torrent the exception handler removed.
MonitorOutlivesTorrent ==
    \E h \in Handles : hState[h] = "removed" /\ monPc[h] # "exited"

\* C27: an engine call that raises during initialization leaves the session
\* invalid, the torrent of the handle removed from the engine and the handle
\* cleared; the registration then returns False; and the monitor thread
\* started for the removed torrent leaves its loop at its next test and, the
\* threads kept running, has always stopped in the end.
C27_InitFailureCleansUp ==
    /\ [][\A t \in Callers : Raised(t) =>
              LET k == ThreadKey(t) IN
              /\ ~is_valid'[k]
              /\ handle'[k] = 0
              /\ handle[k] # 0 => hState'[handle[k]] = "removed"]_vars
    /\ [][\A t \in Callers : (BackFromRaise(t) /\ pc'[t] # pc[t]) =>
              pc'[t] = "done" /\ ret'[t] = "False"]_vars
    /\ [][\A h \in Handles :
              (hState[h] = "removed" /\ monPc[h] = "loop"
                  /\ monPc'[h] # "loop") => monPc'[h] = "exited"]_vars
    /\ []<>~MonitorOutlivesTorrent

\* The priorities were being zeroed when the engine raised: the torrent is
\* removed, the session invalid, the caller has False and the monitor that
\* was started for the torrent has stopped.
C27_Witness ==
    /\ hState[1] = "removed" /\ monPc[1] = "exited"
    /\ handle["k1"] = 0 /\ ~is_valid["k1"]
    /\ pc["t1"] = "done" /\ ret["t1"] = "False"
    /\ added["t1"] /\ ~metaTimedOut["t1"]

\* ------------------------------------------------------------------ C28

\* The torrent was added.
ReachedAdd == rPc = "added"

\* C28: whatever the file at the resume path is, the resume block hands
\* params, still flagged paused, to add_torrent without failing the
\* initialization or touching is_valid; a file that is absent, unreadable or
\* corrupt leaves params as they were built; and with the same locator and
\* the same engine the run ends the same way for every such file: the
\* torrent is added and the session valid exactly when the locator parses
\* and the engine accepts the torrent.
C28_ResumeStateOptional ==
    /\ [][rPc = "resume" => rPc' = "add" /\ rValid' /\ UNCHANGED rHandle]_vars
    /\ [](rPc = "add" =>
              /\ rParams[1].paused
              /\ rIn.file # "valid" => rParams[1] = BuiltParams(rIn))
    /\ [](rPc \in {"added", "failed"} =>
              /\ ReachedAdd <=> (rIn.locator = "ok" /\ rIn.engine = "ok")
              /\ rValid <=> ReachedAdd
              /\ rHandle <=> ReachedAdd)

\* A corrupt resume file met an engine that has read_resume_data: the
\* torrent was added all the same, with the params built before.
C28_Witness ==
    /\ rIn.file = "corrupt" /\ rIn.api
    /\ ReachedAdd /\ rValid /\ rHandle
    /\ rParams = << BuiltParams(rIn) >>

\* An unreadable resume file: the torrent was added.
C28_WitnessUnreadable ==
    /\ rIn.file = "unreadable"
    /\ ReachedAdd /\ rValid

\* ------------------------------------------------------------------ C29

\* A registered filename of key k whose Event is not set resolves to file i.
WantedAt(k, i) ==
    \E f \in FileNames :
        file_events[k][f] = "unset" /\ FindFileIndex(TRUE, f) = i

\* The torrent a session holds once _init_torrent zeroed its priorities.
Initialized(k) == handle[k] # 0 /\ hZeroed[handle[k]]

\* C29: once a session's torrent had its priorities zeroed, a file of it
\* has a priority above 0 only while a registered filename resolving to it
\* has an unset Event; a priority leaves 0 only in a step of download_file
\* or of the monitor; a priority above 0 of such a torrent comes back to 0
\* only in the step that sets the file's Event; and a torrent leaves the
\* engine only in the exception handler of _init_torrent.
C29_PrioritiesFollowRequests ==
    /\ [](\A k \in Keys : Initialized(k) =>
              \A i \in FileIdx :
                  hPrio[handle[k]][i] > 0 => WantedAt(k, i))
    /\ [][\A h \in Handles : \A i \in FileIdx :
              (hPrio[h][i] = 0 /\ hPrio'[h][i] > 0) =>
                  \/ \E t \in DlThreads :
                         pc[t] = "df_reg" /\ pc'[t] = "df_wait"
                  \/ monPc[h] = "body" /\ monPc'[h] = "loop"]_vars
    /\ [][\A h \in Handles : \A i \in FileIdx :
              (hZeroed[h] /\ hPrio[h][i] > 0 /\ hPrio'[h][i] = 0) =>
                  /\ SetsAnEvent(hKey[h])
                  /\ ~WantedAt(hKey[h], i)']_vars
    /\ [][\A h \in Handles :
              (hState[h] = "added" /\ hState'[h] # "added") =>
                  \E t \in Callers : Raised(t)]_vars

\* File a was asked for, fetched and signalled: its priority went up to 1
\* at the registration and is back at 0.
C29_Witness ==
    /\ Initialized("k1")
    /\ file_events["k1"][<<"a">>] = "set"
    /\ hPrio[handle["k1"]][1] = 0
    /\ file_events["k1"][<<"z">>] = "unset"
    /\ hPrio[handle["k1"]][2] = 1

\* ------------------------------------------------------------------ C30

\* The path with its backslashes turned into slashes.
Slashed(p) == [j \in DOMAIN p |-> IF p[j] = "\\" THEN "/" ELSE p[j]]

\* name is path, or path without its first directory: what is left after
\* the first slash of path.
NamesFile(path, name) ==
    \/ path = name
    \/ \E j \in DOMAIN path :
           /\ path[j] = "/"
           /\ \A m \in 1 .. j - 1 : path[m] # "/"
           /\ SubSeq(path, j + 1, Len(path)) = name

\* The files of the looked-up torrent that name denotes.
Denoted(name) == {i \in DOMAIN fPaths : NamesFile(Slashed(fPaths[i]), name)}

\* The call returned None, resp. the lowest file of the set.
ReturnsLowest(found) ==
    IF ~fInfo \/ found = {}
    THEN fResult = << 0 >>
    ELSE /\ fResult[1] \in found
         /\ \A i \in found : fResult[1] <= i

\* C30 as stated: the result is None while the metadata is unknown or when
\* no path matches, and otherwise the lowest index whose path, backslashes
\* turned into slashes, is the requested filename as it was passed, or is it
\* after the first directory of the path is dropped.
C30_FindsByExactOrWrappedPath ==
    fResult # << >> => ReturnsLowest(Denoted(fTarget))

\* C30, amended: the same with the backslashes of the requested filename
\* turned into slashes as well before the comparison.
C30_FindsByNormalisedName ==
    fResult # << >> => ReturnsLowest(Denoted(Slashed(fTarget)))

\* Two files match the name a, the first by its exact path and the second
\* once its backslash is a slash and its directory dropped; the first is
\* returned.
C30_Witness ==
    /\ fInfo
    /\ fTarget = << "a" >>
    /\ fPaths = << << "a" >>, << "a", "\\", "a" >> >>
    /\ fResult = << 1 >>

\* The file is found under a directory, a path with two directories in
\* front is passed over.
C30_WitnessWrapped ==
    /\ fInfo
    /\ fTarget = << "a" >>
    /\ fPaths = << << "/", "/", "a" >>, << "a", "/", "a" >> >>
    /\ fResult = << 2 >>

\* ------------------------------------------------------------------ C31

\* download_file returns False in this step of t for want of a file of the
\* name: the `else: return False` of the unresolved branch.
RejectsUnresolved(t) ==
    pc[t] = "df_else" /\ pc'[t] = "done" /\ ret'[t] = "False"

\* C31: download_file turns a filename down as unresolved only when the
\* metadata is known and no file of the torrent matches the name; a
\* filename that did not resolve while the metadata is unknown is kept with
\* an unset Event and its caller goes on to wait.
C31_RejectedOnlyWhenAbsent ==
    [][\A t \in DlThreads :
          LET k == ThreadKey(t) IN
          /\ RejectsUnresolved(t) =>
                 torrent_info_obj[k] /\ FindFileIndex(TRUE, fname[t]) = 0
          /\ (pc[t] = "df_else" /\ pc'[t] # "df_else"
                 /\ ~torrent_info_obj[k]) =>
                 /\ pc'[t] = "df_wait"
                 /\ file_events'[k][fname[t]] = "unset"]_vars

\* One caller asked for a file the known metadata does not have and was
\* turned down; another asked before the metadata was known and waits.
C31_Witness ==
    /\ fname["t1"] = << "x" >> /\ pc["t1"] = "done" /\ ret["t1"] = "False"
    /\ ~timedOut["t1"] /\ torrent_info_obj["k1"]
    /\ ~startedInvalid["t1"] /\ is_valid["k1"]

\* A filename was queued while the metadata was unknown.
C31_WitnessQueued ==
    /\ pc["t1"] = "df_wait" /\ ~torrent_info_obj["k1"]
    /\ file_events["k1"][fname["t1"]] = "unset"
    /\ metaTimedOut["t1"]

\* ------------------------------------------------------------------ C32

\* The context the innermost hf_hub_download call active on thread u set;
\* NoContext outside every call.
Innermost(u) ==
    IF cFrames[u] = << >> THEN NoContext
    ELSE cFrames[u][Len(cFrames[u])].own

\* C32: the context a thread's http_get reads is the one its innermost
\* active hf_hub_download call stored, and none outside every call: so at
\* any time, whatever other threads did meanwhile, and so again after a
\* call has returned or raised and the context of the enclosing call, or
\* none, is back.
C32_ContextIsInnermostCalls ==
    /\ [](\A u \in CtxThreads : cLocal[u] = Innermost(u))
    /\ [][\A u \in CtxThreads :
              cSeen'[u] # cSeen[u] => cSeen'[u] = << Innermost(u) >>]_vars
    /\ [][\A u \in CtxThreads :
              cFrames'[u] = cFrames[u] => cLocal'[u] = cLocal[u]]_vars

\* Thread u1 is back in its outer call for r1 after a nested call for r2
\* returned, while u2 is inside a call for r2: u1's http_get read r1.
C32_Witness ==
    /\ Len(cFrames["u1"]) = 1
    /\ cFrames["u1"][1].own.repo_id = "r1"
    /\ Len(cFrames["u2"]) = 2
    /\ cLocal["u2"].repo_id = "r2"
    /\ cSeen["u1"] # << >>
    /\ cSeen["u1"][1].repo_id = "r1"
    /\ cSeen["u2"] # << >>
    /\ cSeen["u2"][1].repo_id = "r2"

\* ------------------------------------------------------------------ C33

\* The call of t is over and was turned down for want of a file of the
\* name: it returned False after an _init_torrent that returned True,
\* without having waited.
WasRejected(t) ==
    /\ pc[t] = "done" /\ ret[t] = "False"
    /\ initRet[t] /\ ~timedOut[t] /\ ~startedInvalid[t]

\* C33: a download_file that returns False because no file of the known
\* metadata has the name leaves no Event and no destination for the name
\* behind, and a later download_file for the same name, finding none,
\* returns False as well instead of going on to wait.
C33_RejectionLeavesNoRequest ==
    /\ [][\A t \in DlThreads :
              RejectsUnresolved(t) =>
                  file_events'[ThreadKey(t)][fname[t]] = "none"]_vars
    /\ [][\A t, u \in DlThreads :
              (WasRejected(t) /\ ThreadKey(u) = ThreadKey(t)
                  /\ fname[u] = fname[t]
                  /\ pc[u] = "df_reg" /\ pc'[u] # "df_reg") =>
                  pc'[u] = "done" /\ ret'[u] = "False"]_vars

\* The second caller of a name that was turned down waited until its
\* timeout ran out.
C33_LaterCallerTimesOut ==
    /\ WasRejected("t1") /\ fname["t1"] = << "x" >>
    /\ fname["t2"] = << "x" >> /\ pc["t2"] = "done" /\ timedOut["t2"]
    /\ torrent_info_obj["k1"]

\* ------------------------------------------------------------------ C34

\* C34: every save_resume_data_alert the engine posted for a session's
\* handle is either still queued or was written to that session's resume
\* path: none was taken off the queue by another session's monitor and
\* dropped.
C34_NoAlertDiscarded ==
    \A m \in AlertSessions : aPosted[m] = aWritten[m] + AlertsFor(m)

\* ------------------------------------------------------------------ C35

\* C35: a torrent of which a file was given a fetch priority, by
\* download_file or by the monitor's deferred mapping after the priorities
\* were zeroed, has been resumed: it is not in the paused state it was
\* added in.
C35_FetchingImpliesResumed ==
    \A h \in Handles :
        (hState[h] = "added" /\ hZeroed[h]
            /\ \E i \in FileIdx : hPrio[h][i] > 0) => ~hPaused[h]

\* ------------------------------------------------------------------ C36

\* C36: a session that is not valid holds no handle, and no torrent added
\* for its key is left in the engine.
C36_InvalidHoldsNoTransfer ==
    \A k \in Keys : ~is_valid[k] =>
        /\ handle[k] = 0
        /\ \A h \in Handles : hKey[h] = k => hState[h] # "added"

\* ------------------------------------------------------------------ C37

\* A register_request call is under way.
CallUnderWay == \E t \in DlThreads : pc[t] \notin {"idle", "done"}

\* C37, the outcome: a register_request call that is over has returned True
\* or False.
C37_ReturnsTrueOrFalse ==
    \A t \in DlThreads : pc[t] = "done" => ret[t] \in {"True", "False"}

\* C37, the termination: the threads kept running, no register_request
\* call stays under way for ever.
C37_NoCallWaitsForEver == []<>~CallUnderWay

\* Both callers are back, one with the file and one after its timeout.
C37_BothReturned ==
    /\ pc["t1"] = "done" /\ ret["t1"] = "True"
    /\ pc["t2"] = "done" /\ ret["t2"] = "False" /\ timedOut["t2"]

\* ------------------------------------------------------------------ C38

\* The engine is fetching a file into path d: a torrent still in the
\* engine, resumed, has a file with a fetch priority whose storage target
\* is d.
EngineFetchesInto(d) ==
    \E h \in Handles, i \in FileIdx :
        /\ hState[h] = "added" /\ ~hPaused[h]
        /\ hPrio[h][i] > 0 /\ hTarget[h][i] = d

\* C38: when register_request did not return True, so that patched_http_get
\* goes on to orig_http(url, temp_file), the engine is not fetching a file
\* into temp_file's path.
C38_FallbackPathNotShared ==
    \A t \in DlThreads :
        (pc[t] = "done" /\ ret[t] # "True") => ~EngineFetchesInto(dest[t])

\* ------------------------------------------------------------------ C39

\* The worker threads of hash h that have not returned.
WorkersOf(h) == { w \in Workers : Running(w, h) }

\* C39: no info hash has two seed workers running at a time, and a torrent
\* on which remove_torrent was called is the torrent of a worker that has
\* returned: the cleanup that removed it was its own worker's.
C39_OneWorkerCleansItsOwn ==
    /\ \A h \in Hashes : Cardinality(WorkersOf(h)) <= 1
    /\ \A w \in Workers : wTorrent[w] = "removed" => wPc[w] = "exited"

\* Two workers seed one hash, each with a torrent in a session of its own.
C39_TwoWorkersSeedOneHash ==
    \E w, v \in Workers :
        /\ w # v /\ wHash[w] = wHash[v]
        /\ wPc[w] = "seeding" /\ wPc[v] = "seeding"
        /\ wTorrent[w] = "added" /\ wTorrent[v] = "added"

\* ------------------------------------------------------------------ C40

\* The worker w has returned and its torrent is in no engine session.
Terminated(w) == wPc[w] = "exited" /\ wTorrent[w] # "added"

\* C40, the termination: a worker started by start_seeding, after a
\* stop_seeding of its hash or a stop_all_seeding, returns in the end with
\* its torrent out of the engine.
C40_StopIsNeverLost ==
    \A w \in Workers : wStopAfter[w] ~> Terminated(w)

\* C40, the registration: a worker does not store its session under its
\* hash after a stop_seeding of that hash or a stop_all_seeding.
C40_NotRegisteredAfterStop ==
    [][\A w \in Workers :
          (wPc[w] = "starting" /\ wPc'[w] = "seeding") => ~wStopAfter[w]]_vars

\* A worker seeds with its hash registered although a stop came after
\* start_seeding had started it.
C40_SeedsOnAfterStop ==
    \E w \in Workers :
        /\ wStopAfter[w] /\ wPc[w] = "seeding"
        /\ wHash[w] \in seeding_sessions /\ wOwner[wHash[w]] = w

====
